---------------------------- MODULE Spec2Model ----------------------------
(***************************************************************************)
(* A model of the ASD binary codec of                                      *)
(* src/fileIO/SpectInstrulment/ASD/asdFileHandle_1.py (class ASDFile).     *)
(*                                                                         *)
(* Bytes are the integers 0..255 and a buffer is a sequence of bytes.      *)
(* Offsets are 0-based as in the source; sequences are 1-based, so byte    *)
(* `offset` of a buffer b is b[offset + 1].                                *)
(*                                                                         *)
(* Python values.  TLC compares only values of one shape, so every field   *)
(* has one shape and Python's None has one spelling per shape:             *)
(*   None     where the field holds a record (a namedtuple),               *)
(*   NoneSeq  where it holds bytes, a str, a list or an array,             *)
(*   NONE     where it holds an int (offsets, lengths),                    *)
(*   NONE2    is the tuple (None, None) that __check_offset returns in     *)
(*            place of an offset.                                          *)
(* A str is the sequence of its code points.  A numpy array of doubles is  *)
(* the sequence of the little-endian bytes of its elements (struct's 'd'   *)
(* conversion copies the 8 bytes of a double both ways).                   *)
(*                                                                         *)
(* The platform is little-endian; the size of struct's native 'l' is a     *)
(* property of the build (4 or 8) and is the variable longSize.            *)
(***************************************************************************)
EXTENDS Integers, Sequences, FiniteSets, TLC

VARIABLES
    asdFile,   \* the ASDFile object: a record of its attributes
    fs,        \* the file system: path -> bytes of the file, or NoFile
    longSize,  \* struct.calcsize('l') of the build: 4 or 8
    fresh,     \* TRUE while no read has run on the object since __init__
    lastOp,    \* the last operation: its name, argument and result
    trace,     \* the log of the last operation: parser calls or sections emitted
    written,   \* the object as the last write was called on it
    ops        \* the number of read and write calls so far

vars == <<asdFile, fs, longSize, fresh, lastOp, trace, written, ops>>

None == [none |-> TRUE]
NoneSeq == <<-1>>
NONE == -1
NONE2 == -2

Min(a, b) == IF a <= b THEN a ELSE b
Max(a, b) == IF a >= b THEN a ELSE b
Zeros(n) == [i \in 1..n |-> 0]
Fill(n, v) == [i \in 1..n |-> v]

(* b[lo:hi] of Python for 0 <= lo; hi = NONE is b[lo:], and a negative hi  *)
(* counts from the end of b                                                *)
Slice(b, lo, hi) ==
    LET h == IF hi = NONE THEN Len(b)
             ELSE IF hi < 0 THEN Max(hi + Len(b), 0)
             ELSE Min(hi, Len(b))
    IN  IF lo >= h THEN <<>> ELSE SubSeq(b, lo + 1, h)

(* b.ljust(n, b'\x00') *)
ljust(b, n) == IF Len(b) >= n THEN b ELSE b \o Zeros(n - Len(b))

(* b.strip(b'\x00'): zero bytes are removed at BOTH ends *)
strip(b) ==
    LET nz == {i \in 1..Len(b) : b[i] # 0}
    IN  IF nz = {} THEN <<>>
        ELSE LET lo == CHOOSE i \in nz : \A j \in nz : i <= j
                 hi == CHOOSE i \in nz : \A j \in nz : i >= j
             IN  SubSeq(b, lo, hi)

(* struct.unpack_from(fmt, buffer, offset) raises struct.error unless the  *)
(* buffer holds calcsize(fmt) bytes from offset on                         *)
Fits(b, off, n) == off >= 0 /\ off + n <= Len(b)

(* little-endian integers of struct: 'B'/'b', 'H'/'h', 'i'/'l' *)
U8(b, off) == b[off + 1]
S8(b, off) == IF b[off + 1] >= 128 THEN b[off + 1] - 256 ELSE b[off + 1]
U16(b, off) == b[off + 1] + 256 * b[off + 2]
S16(b, off) == IF U16(b, off) >= 32768 THEN U16(b, off) - 65536 ELSE U16(b, off)
S32(b, off) ==
    b[off + 1] + 256 * b[off + 2] + 65536 * b[off + 3]
      + 16777216 * (IF b[off + 4] >= 128 THEN b[off + 4] - 256 ELSE b[off + 4])

PackU8(v) == << v % 256 >>
PackU16(v) == << v % 256, (v \div 256) % 256 >>
PackS16(v) == PackU16((v + 65536) % 65536)
PackS32(v) ==
    << v % 256, (v \div 256) % 256, (v \div 65536) % 256, (v \div 16777216) % 256 >>

(* The native 'l' of struct, n bytes wide (4 or 8).  An 8-byte value that  *)
(* does not fit 32 bits is outside the integers TLC computes with: it is   *)
(* read as the 32-bit value of its sign that is largest in magnitude.      *)
SLong(b, off, n) ==
    IF n = 4 THEN S32(b, off)
    ELSE IF b[off + 4] < 128 /\ \A i \in 5..8 : b[off + i] = 0 THEN S32(b, off)
    ELSE IF b[off + 4] >= 128 /\ \A i \in 5..8 : b[off + i] = 255 THEN S32(b, off)
    ELSE IF b[off + 8] >= 128 THEN -2147483647
    ELSE 2147483647
PackSLong(v, n) ==
    PackS32(v) \o (IF n = 8 THEN Fill(4, IF v < 0 THEN 255 ELSE 0) ELSE <<>>)


(***************************************************************************)
(* UTF-8, as bytes.decode('utf-8') and str.encode('utf-8') compute it.     *)
(***************************************************************************)
IsCont(x) == x >= 128 /\ x <= 191

(* the number of bytes of the well-formed sequence that starts at b[i], or *)
(* 0 when none starts there (overlong forms, surrogates and code points    *)
(* above U+10FFFF are rejected, as CPython rejects them)                   *)
U8Len(b, i) ==
    LET n  == Len(b)
        b0 == b[i]
        c1 == IF i + 1 <= n THEN b[i + 1] ELSE 0
        c2 == IF i + 2 <= n THEN b[i + 2] ELSE 0
        c3 == IF i + 3 <= n THEN b[i + 3] ELSE 0
    IN  IF b0 <= 127 THEN 1
        ELSE IF b0 >= 194 /\ b0 <= 223 THEN (IF IsCont(c1) THEN 2 ELSE 0)
        ELSE IF b0 >= 224 /\ b0 <= 239 THEN
            (IF /\ IsCont(c1) /\ IsCont(c2)
                /\ (b0 = 224 => c1 >= 160)
                /\ (b0 = 237 => c1 <= 159)
             THEN 3 ELSE 0)
        ELSE IF b0 >= 240 /\ b0 <= 244 THEN
            (IF /\ IsCont(c1) /\ IsCont(c2) /\ IsCont(c3)
                /\ (b0 = 240 => c1 >= 144)
                /\ (b0 = 244 => c1 <= 143)
             THEN 4 ELSE 0)
        ELSE 0

U8Cp(b, i, k) ==
    IF k = 1 THEN b[i]
    ELSE IF k = 2 THEN (b[i] - 192) * 64 + (b[i + 1] - 128)
    ELSE IF k = 3 THEN (b[i] - 224) * 4096 + (b[i + 1] - 128) * 64 + (b[i + 2] - 128)
    ELSE (b[i] - 240) * 262144 + (b[i + 1] - 128) * 4096
           + (b[i + 2] - 128) * 64 + (b[i + 3] - 128)

RECURSIVE utf8_decode_from(_, _, _)
utf8_decode_from(b, i, acc) ==
    LET Take(k) ==
            IF k = 0 THEN [ok |-> FALSE, s |-> acc]
            ELSE utf8_decode_from(b, i + k, Append(acc, U8Cp(b, i, k)))
    IN  IF i > Len(b) THEN [ok |-> TRUE, s |-> acc] ELSE Take(U8Len(b, i))

(* bytes.decode('utf-8'): ok = FALSE is UnicodeDecodeError *)
utf8_decode(b) ==
    IF \A i \in 1..Len(b) : b[i] <= 127 THEN [ok |-> TRUE, s |-> b]
    ELSE utf8_decode_from(b, 1, <<>>)

utf8_encode_cp(c) ==
    IF c <= 127 THEN << c >>
    ELSE IF c <= 2047 THEN << 192 + (c \div 64), 128 + (c % 64) >>
    ELSE IF c <= 65535 THEN
        << 224 + (c \div 4096), 128 + ((c \div 64) % 64), 128 + (c % 64) >>
    ELSE << 240 + (c \div 262144), 128 + ((c \div 4096) % 64),
            128 + ((c \div 64) % 64), 128 + (c % 64) >>

RECURSIVE utf8_encode_from(_, _, _)
utf8_encode_from(s, lo, hi) ==
    IF lo > hi THEN <<>>
    ELSE IF lo = hi THEN utf8_encode_cp(s[lo])
    ELSE utf8_encode_from(s, lo, (lo + hi) \div 2)
           \o utf8_encode_from(s, (lo + hi) \div 2 + 1, hi)

(* str.encode('utf-8') *)
utf8_encode(s) ==
    IF \A i \in 1..Len(s) : s[i] <= 127 THEN s ELSE utf8_encode_from(s, 1, Len(s))

(* the decorator with the comparison off by one: an offset at the very end *)
(* of the buffer still calls the parser                                    *)
check_offset_le(stream, offset) ==
    IF offset = NONE2 THEN "raise"
    ELSE IF offset # NONE /\ offset <= Len(stream) THEN "call"
    ELSE "skip"

(***************************************************************************)
(* __check_offset (the decorator of every parser): the wrapped function is *)
(* called only when the offset is an int below the buffer length; for None *)
(* or an offset at or past the end the wrapper returns (None, None); for   *)
(* the tuple (None, None) the comparison with an int raises TypeError.     *)
(***************************************************************************)
check_offset(stream, offset) ==
    IF offset = NONE2 THEN "raise"
    ELSE IF offset # NONE /\ offset < Len(stream) THEN "call"
    ELSE "skip"

(***************************************************************************)
(* Primitive codecs.  A result is [v, off, exc]: the pair the function     *)
(* returns (off = NONE for the pair (None, None)), or exc = TRUE when an   *)
(* exception leaves the function.                                          *)
(***************************************************************************)
NoStr == [v |-> NoneSeq, off |-> NONE, exc |-> FALSE]
StrRaise == [v |-> NoneSeq, off |-> NONE, exc |-> TRUE]

parse_bstr(stream, offset) ==
    LET Text(d, end) ==
            IF d.ok THEN [v |-> d.s, off |-> end, exc |-> FALSE] ELSE StrRaise
        Sized(size) ==
            IF size < 0 \/ ~Fits(stream, offset + 2, size) THEN NoStr
            ELSE Text(utf8_decode(Slice(stream, offset + 2, offset + 2 + size)),
                         offset + 2 + size)
        Checked(chk) ==
            IF chk = "raise" THEN StrRaise
            ELSE IF chk = "skip" THEN NoStr
            ELSE IF ~Fits(stream, offset, 2) THEN NoStr
            ELSE Sized(S16(stream, offset))
    IN  Checked(check_offset(stream, offset))

(* an encoder that writes the number of characters of the string as the    *)
(* length prefix                                                           *)
wrap_bstr_chars(string) ==
    IF string = NoneSeq THEN [bytes |-> <<>>, ok |-> FALSE]
    ELSE [bytes |-> PackS16(Len(string)) \o utf8_encode(string), ok |-> TRUE]

(* wrap_bstr of a str: [bytes, ok]; ok = FALSE when the function returns   *)
(* (None, None) (struct.error: the length does not fit 'h') or raises      *)
(* (the argument is None: neither branch binds byteStream)                 *)
wrap_bstr(string) ==
    LET Sized(bstr) ==
            IF Len(bstr) > 32767 THEN [bytes |-> <<>>, ok |-> FALSE]
            ELSE [bytes |-> PackS16(Len(bstr)) \o bstr, ok |-> TRUE]
    IN  IF string = NoneSeq THEN [bytes |-> <<>>, ok |-> FALSE]
        ELSE Sized(utf8_encode(string))

NoBool == [v |-> FALSE, off |-> NONE, exc |-> FALSE]

(* a decoder that takes every 2 bytes other than 00 00 for true *)
parse_Bool_nonzero(stream, offset) ==
    IF check_offset(stream, offset) = "raise" THEN [NoBool EXCEPT !.exc = TRUE]
    ELSE IF check_offset(stream, offset) = "skip" THEN NoBool
    ELSE IF Len(Slice(stream, offset, offset + 2)) < 2 THEN NoBool
    ELSE [v |-> Slice(stream, offset, offset + 2) # <<0, 0>>, off |-> offset + 2,
          exc |-> FALSE]

parse_Bool(stream, offset) ==
    LET Flag(buffer) ==
            IF buffer = <<255, 255>> THEN [v |-> TRUE, off |-> offset + 2, exc |-> FALSE]
            ELSE IF buffer = <<0, 0>> THEN [v |-> FALSE, off |-> offset + 2, exc |-> FALSE]
            ELSE NoBool
        Checked(chk) ==
            IF chk = "raise" THEN [NoBool EXCEPT !.exc = TRUE]
            ELSE IF chk = "skip" THEN NoBool
            ELSE Flag(Slice(stream, offset, offset + 2))
    IN  Checked(check_offset(stream, offset))

wrap_Bool(bool) == IF bool THEN <<255, 255>> ELSE <<0, 0>>

(***************************************************************************)
(* The version tag.                                                        *)
(***************************************************************************)
ASD == <<65, 83, 68>>
asN(n) == <<97, 115, 48 + n>>

(* version_dict, by the 3 bytes of the key; "Invalid" has 7 and is never   *)
(* the decoding of 3 bytes.  -1 stands for both the ValueError of an       *)
(* unknown tag and the exceptions of None[:3] and of an undecodable tag.   *)
validate_fileVersion(stream) ==
    IF stream = NoneSeq THEN -1
    ELSE LET version_data == Slice(stream, 0, 3)
         IN  IF version_data = ASD THEN 1
             ELSE IF \E n \in 2..8 : version_data = asN(n)
                  THEN CHOOSE n \in 2..8 : version_data = asN(n)
                  ELSE -1

(* a writer that knows only the "asN" form of the tag *)
setFileVersion_noASD(version) == asN(version)

(* f"as{version}" for the one-digit versions *)
setFileVersion(version) == IF version = 1 THEN ASD ELSE asN(version)

(***************************************************************************)
(* The calendar arithmetic of datetime.datetime (proleptic Gregorian).     *)
(***************************************************************************)
IsLeap(y) == (y % 4 = 0 /\ y % 100 # 0) \/ y % 400 = 0

DaysInMonth(y, m) ==
    IF m = 2 THEN (IF IsLeap(y) THEN 29 ELSE 28)
    ELSE IF m \in {4, 6, 9, 11} THEN 30 ELSE 31

DaysBeforeMonth(y, m) ==
    <<0, 31, 59, 90, 120, 151, 181, 212, 243, 273, 304, 334>>[m]
      + (IF m > 2 /\ IsLeap(y) THEN 1 ELSE 0)

(* date.toordinal() and date.weekday() (Monday = 0) *)
toordinal(y, m, d) ==
    365 * (y - 1) + ((y - 1) \div 4) - ((y - 1) \div 100) + ((y - 1) \div 400)
      + DaysBeforeMonth(y, m) + d

weekday(y, m, d) == (toordinal(y, m, d) + 6) % 7

(* datetime.datetime(year, month, day, hour, minute, second) raises        *)
(* ValueError unless every field is in range                               *)
ValidDatetime(y, m, d, hh, mm, ss) ==
    /\ y >= 1 /\ y <= 9999
    /\ m >= 1 /\ m <= 12
    /\ d >= 1 /\ d <= DaysInMonth(y, m)
    /\ hh >= 0 /\ hh <= 23
    /\ mm >= 0 /\ mm <= 59
    /\ ss >= 0 /\ ss <= 59

(* __parse_ASDFilewhen of the 9 native shorts of the 18-byte field: a      *)
(* datetime <<year, month, day, hour, minute, second>> and the daylight    *)
(* flag; ok = FALSE is the ValueError of datetime.datetime                 *)
parse_ASDFilewhen(when) ==
    LET seconds == S16(when, 0)
        minutes == S16(when, 2)
        hour    == S16(when, 4)
        day     == S16(when, 6)
        month   == S16(when, 8)
        year0   == S16(when, 10)
        year    == IF year0 < 1900 THEN year0 + 1900 ELSE year0
    IN  [ok  |-> ValidDatetime(year, month + 1, day, hour, minutes, seconds),
         dt  |-> <<year, month + 1, day, hour, minutes, seconds>>,
         daylighSavingsFlag |-> S16(when, 16)]

(* __wrap_ASDFilewhen: weekday and day of the year are recomputed *)
wrap_ASDFilewhen(when, isDaylightSaving) ==
    LET year     == IF when[1] >= 1900 THEN when[1] - 1900 ELSE when[1]
        weekDay  == (weekday(when[1], when[2], when[3]) + 1) % 7
        daysInYear == toordinal(when[1], when[2], when[3]) - toordinal(when[1], 1, 1)
    IN  PackS16(when[6]) \o PackS16(when[5]) \o PackS16(when[4]) \o PackS16(when[3])
          \o PackS16(when[2] - 1) \o PackS16(year) \o PackS16(weekDay)
          \o PackS16(daysInYear) \o PackS16(isDaylightSaving)

(***************************************************************************)
(* The object: a record of the attributes of an ASDFile (the `self` of its *)
(* methods).                                                               *)
(* __asdFileStream and __bom are the fields asdFileStream and bom; __bom   *)
(* is never assigned by __init__, and reading it before read has assigned  *)
(* it goes through __getattr__, which returns None.  wavelengths holds the *)
(* arguments np.arange was called with.                                    *)
(***************************************************************************)
NewASDFile ==
    [asdFileVersion       |-> 0,
     metadata             |-> None,
     spectrumData         |-> None,
     referenceFileHeader  |-> None,
     referenceData        |-> None,
     classifierData       |-> None,
     dependants           |-> None,
     calibrationHeader    |-> None,
     calibrationSeriesABS |-> NoneSeq,
     calibrationSeriesBSE |-> NoneSeq,
     calibrationSeriesLMP |-> NoneSeq,
     calibrationSeriesFO  |-> NoneSeq,
     auditLog             |-> None,
     signature            |-> None,
     asdFileStream        |-> NoneSeq,
     wavelengths          |-> None,
     bom                  |-> NoneSeq]

(***************************************************************************)
(* Section parsers.  Each is the decorated method: its result is           *)
(*   ret  the value returned in place of the next offset: an int, NONE     *)
(*        (the parser's own failure) or NONE2 (from __check_offset);       *)
(*   exc  TRUE when an exception leaves the method;                        *)
(*   set  TRUE when the method assigned its attribute, and val the value.  *)
(***************************************************************************)
Raised(val) == [ret |-> NONE, exc |-> TRUE, set |-> FALSE, val |-> val]
Skipped(val) == [ret |-> NONE2, exc |-> FALSE, set |-> FALSE, val |-> val]
Failed(val) == [ret |-> NONE, exc |-> FALSE, set |-> FALSE, val |-> val]
Parsed(val, offset) == [ret |-> offset, exc |-> FALSE, set |-> TRUE, val |-> val]

MetadataLength == 481

(* The 481-byte record.  comments is stripped, when is converted, channels *)
(* is the 'H' at record offset 201; every other field is a fixed-width     *)
(* number or an unstripped blob that struct unpacks and packs back to the  *)
(* same bytes (darkTime and referenceTime pass through                     *)
(* datetime.fromtimestamp and timestamp()), and is carried as its bytes in *)
(* fixed1 (record offsets 175..200) and fixed2 (203..480).                 *)
parse_metadata(self, offset) ==
    LET stream == self.asdFileStream
        Record(rec, w, ByteStream) ==
            IF ~w.ok THEN Failed(None)
            ELSE Parsed([comments |-> strip(Slice(rec, 0, 157)),
                         when |-> w.dt,
                         daylighSavingsFlag |-> w.daylighSavingsFlag,
                         fixed1 |-> Slice(rec, 175, 201),
                         channels |-> U16(rec, 201),
                         fixed2 |-> Slice(rec, 203, 481),
                         byteStream |-> ByteStream,
                         byteStreamLength |-> Len(ByteStream)],
                        offset + 481)
        Checked(chk) ==
            IF chk = "raise" THEN Raised(None)
            ELSE IF chk = "skip" THEN Skipped(None)
            ELSE IF ~Fits(stream, offset, MetadataLength) THEN Failed(None)
            ELSE Record(Slice(stream, offset, offset + MetadataLength),
                        parse_ASDFilewhen(Slice(stream, offset + 157, offset + 175)),
                        Slice(stream, 0, 484))
    IN  Checked(check_offset(stream, offset))

channel1Wavelength(metadata) == Slice(metadata.fixed1, 13, 17)
wavelengthStep(metadata) == Slice(metadata.fixed1, 17, 21)

(* __wrap_metadata: struct.pack of the fields in order; ok = FALSE when    *)
(* pack raises (comments longer than... cannot happen: 's' truncates)      *)
wrap_metadata(self) ==
    IF self.metadata = None THEN [bytes |-> <<>>, ok |-> FALSE]
    ELSE LET m == self.metadata
         IN  [bytes |-> Slice(ljust(m.comments, 157), 0, 157)
                          \o wrap_ASDFilewhen(m.when, m.daylighSavingsFlag)
                          \o m.fixed1 \o PackU16(m.channels) \o m.fixed2,
              ok |-> TRUE]

(* a float32 field, by its 4 little-endian bytes *)
F32IsZero(f) == f[1] = 0 /\ f[2] = 0 /\ f[3] = 0 /\ f[4] \in {0, 128}
F32IsFinite(f) == ~(f[4] % 128 = 127 /\ f[3] >= 128)

(* np.arange(start, start + channels * step, step) raises for a zero step  *)
(* (ZeroDivisionError) and when the length is not a number                 *)
ArangeRaises(metadata) ==
    \/ F32IsZero(wavelengthStep(metadata))
    \/ ~F32IsFinite(wavelengthStep(metadata))
    \/ ~F32IsFinite(channel1Wavelength(metadata))

(* __parse_spectra: kind "four" is the 4-tuple it returns (all None after  *)
(* an exception inside), "two" the (None, None) of __check_offset, "raise" *)
(* the TypeError of __check_offset.  byteStream is sliced AFTER the offset *)
(* has been advanced.                                                      *)
NoSpectra(kind) ==
    [kind |-> kind, spectra |-> NoneSeq, byteStream |-> NoneSeq,
     byteStreamLength |-> NONE, off |-> NONE]

parse_spectra(self, offset) ==
    LET stream == self.asdFileStream
        chk == check_offset(stream, offset)
    IN  IF chk = "raise" THEN NoSpectra("raise")
        ELSE IF chk = "skip" THEN NoSpectra("two")
        ELSE IF self.metadata = None THEN NoSpectra("four")
        ELSE LET n == self.metadata.channels * 8
             IN  IF ~Fits(stream, offset, n) THEN NoSpectra("four")
                 ELSE [kind |-> "four",
                       spectra |-> Slice(stream, offset, offset + n),
                       byteStream |-> Slice(stream, offset + n, offset + n + n),
                       byteStreamLength |-> Len(Slice(stream, offset + n, offset + n + n)),
                       off |-> offset + n]

(* __wrap_spectra(spectra): struct.pack('<{channels}d', *spectra); ok =    *)
(* FALSE is its (None, None): spectra is None, metadata is None, or the    *)
(* number of values is not channels                                        *)
wrap_spectra(self, spectra) ==
    IF \/ spectra = NoneSeq
       \/ self.metadata = None
       \/ Len(spectra) # self.metadata.channels * 8
    THEN [bytes |-> <<>>, ok |-> FALSE]
    ELSE [bytes |-> spectra, ok |-> TRUE]

SpectrumRecord(r) ==
    [spectra |-> r.spectra, byteStream |-> r.byteStream,
     byteStreamLength |-> r.byteStreamLength]

(* __parse_spectrumData and __parse_referenceData have the same body *)
parse_spectrumRecord(self, offset) ==
    LET Record(r) ==
            IF r.kind # "four" THEN Failed(None)
            ELSE [ret |-> r.off, exc |-> FALSE, set |-> TRUE, val |-> SpectrumRecord(r)]
        Checked(chk) ==
            IF chk = "raise" THEN Raised(None)
            ELSE IF chk = "skip" THEN Skipped(None)
            ELSE Record(parse_spectra(self, offset))
    IN  Checked(check_offset(self.asdFileStream, offset))

parse_spectrumData(self, offset) == parse_spectrumRecord(self, offset)
parse_referenceData(self, offset) == parse_spectrumRecord(self, offset)

wrap_spectrumData(self) == wrap_spectra(self, self.spectrumData.spectra)
wrap_referenceData(self) == wrap_spectra(self, self.referenceData.spectra)

(* parse_bstr n times in a row, each from the offset the one before        *)
(* returned: [vs, off, exc]                                                *)
RECURSIVE parse_bstrs(_, _, _, _)
parse_bstrs(stream, offset, n, acc) ==
    LET More(r) ==
            IF r.exc THEN [vs |-> acc, off |-> NONE, exc |-> TRUE]
            ELSE parse_bstrs(stream, r.off, n - 1, Append(acc, r.v))
    IN  IF n = 0 THEN [vs |-> acc, off |-> offset, exc |-> FALSE]
        ELSE More(parse_bstr(stream, offset))

RECURSIVE wrap_bstrs(_, _, _)
wrap_bstrs(strings, i, acc) ==
    LET More(w) ==
            IF ~w.ok THEN [bytes |-> acc, ok |-> FALSE]
            ELSE wrap_bstrs(strings, i + 1, acc \o w.bytes)
    IN  IF i > Len(strings) THEN [bytes |-> acc, ok |-> TRUE]
        ELSE More(wrap_bstr(strings[i]))

(* the dimension header the writers emit before an array:                  *)
(* pack('H', 1) + pack('I', count) + pack('I', 0)                          *)
DimensionHeader(count) == PackU16(1) \o PackS32(count) \o PackS32(0)

(* The two 'q' timestamps are carried as their 8 bytes each. *)
parse_referenceFileHeader(self, offset) ==
    LET stream == self.asdFileStream
        Record(b, d, byteStream) ==
            [ret |-> d.off, exc |-> FALSE, set |-> TRUE,
             val |-> [referenceFlag |-> b.v,
                      referenceTime |-> Slice(stream, b.off, b.off + 8),
                      spectrumTime |-> Slice(stream, b.off + 8, b.off + 16),
                      referenceDescription |-> d.v,
                      byteStream |-> byteStream,
                      byteStreamLength |-> Len(byteStream)]]
        Described(b, d) ==
            IF d.exc THEN Failed(None)
            ELSE Record(b, d, Slice(stream, offset, d.off))
        Flagged(b) ==
            IF b.off = NONE THEN Failed(None)
            ELSE IF ~Fits(stream, b.off, 16) THEN Failed(None)
            ELSE Described(b, parse_bstr(stream, b.off + 16))
        Checked(chk) ==
            IF chk = "raise" THEN Raised(None)
            ELSE IF chk = "skip" THEN Skipped(None)
            ELSE Flagged(parse_Bool(stream, offset))
    IN  Checked(check_offset(stream, offset))

wrap_referenceFileHeader(self) ==
    LET h == self.referenceFileHeader
        Packed(d) ==
            IF ~d.ok THEN [bytes |-> <<>>, ok |-> FALSE]
            ELSE [bytes |-> wrap_Bool(h.referenceFlag) \o h.referenceTime
                              \o h.spectrumTime \o d.bytes,
                  ok |-> TRUE]
    IN  Packed(wrap_bstr(h.referenceDescription))

ConstituantTailLength == 92

(* __parse_constituantType: [item, off]; item = None and off = NONE are    *)
(* its (None, None).  The 9 doubles, the 'l' and the 2 doubles of the      *)
(* '<'-format (92 bytes) are carried as their bytes.                       *)
NoItem == [item |-> None, off |-> NONE]

parse_constituantType(stream, offset) ==
    LET Item(name, passFail) ==
            IF name.exc \/ passFail.exc THEN NoItem
            ELSE IF passFail.off = NONE THEN NoItem
            ELSE IF ~Fits(stream, passFail.off, ConstituantTailLength) THEN NoItem
            ELSE [item |-> [constituentName |-> name.v,
                            passFail |-> passFail.v,
                            tail |-> Slice(stream, passFail.off,
                                           passFail.off + ConstituantTailLength)],
                  off |-> passFail.off + ConstituantTailLength]
        Named(name) == Item(name, parse_bstr(stream, name.off))
    IN  IF check_offset(stream, offset) # "call" THEN NoItem
        ELSE Named(parse_bstr(stream, offset))

wrap_constituantType(item) ==
    LET Packed(n, f) ==
            IF ~n.ok \/ ~f.ok THEN [bytes |-> <<>>, ok |-> FALSE]
            ELSE [bytes |-> n.bytes \o f.bytes \o item.tail, ok |-> TRUE]
    IN  IF item = None THEN [bytes |-> <<>>, ok |-> FALSE]
        ELSE Packed(wrap_bstr(item.constituentName), wrap_bstr(item.passFail))

RECURSIVE parse_constituantItems(_, _, _, _)
parse_constituantItems(stream, offset, n, acc) ==
    LET More(r) == parse_constituantItems(stream, r.off, n - 1, Append(acc, r.item))
    IN  IF n = 0 THEN [items |-> acc, off |-> offset]
        ELSE More(parse_constituantType(stream, offset))

RECURSIVE wrap_constituantItems(_, _, _, _)
wrap_constituantItems(items, i, n, acc) ==
    LET More(w) ==
            IF ~w.ok THEN [bytes |-> acc, ok |-> FALSE]
            ELSE wrap_constituantItems(items, i + 1, n, acc \o w.bytes)
    IN  IF i > n THEN [bytes |-> acc, ok |-> TRUE]
        ELSE IF i > Len(items) THEN [bytes |-> acc, ok |-> FALSE]
        ELSE More(wrap_constituantType(items[i]))

(* strings holds the 20 bstr fields, title .. reserved4, in order *)
parse_classifierData(self, offset) ==
    LET stream == self.asdFileStream
        Record(strs, count, items, end, byteStream) ==
            [ret |-> end, exc |-> FALSE, set |-> TRUE,
             val |-> [yCode |-> S8(stream, offset),
                      yModelType |-> S8(stream, offset + 1),
                      strings |-> strs.vs,
                      constituantCount |-> count,
                      constituantItems |-> items,
                      byteStream |-> byteStream,
                      byteStreamLength |-> Len(byteStream)]]
        Ended(strs, count, items, end) ==
            Record(strs, count, items, end, Slice(stream, offset, end))
        Itemised(strs, count, its) ==
            IF count > 0 THEN Ended(strs, count, its.items, its.off)
            ELSE Ended(strs, count, <<>>, strs.off + 4)
        Counted(strs, count) ==
            Itemised(strs, count,
                     parse_constituantItems(stream, strs.off + 12, count, <<>>))
        Titled(strs) ==
            IF strs.exc \/ strs.off = NONE THEN Failed(None)
            ELSE IF ~Fits(stream, strs.off, 2) THEN Failed(None)
            ELSE Counted(strs, U16(stream, strs.off))
        Checked(chk) ==
            IF chk = "raise" THEN Raised(None)
            ELSE IF chk = "skip" THEN Skipped(None)
            ELSE IF ~Fits(stream, offset, 2) THEN Failed(None)
            ELSE Titled(parse_bstrs(stream, offset + 2, 20, <<>>))
    IN  Checked(check_offset(stream, offset))

wrap_classifierData(self) ==
    LET c == self.classifierData
        Packed(strs, its) ==
            IF ~strs.ok THEN [bytes |-> <<>>, ok |-> FALSE]
            ELSE IF c.constituantCount > 0 /\ ~its.ok THEN [bytes |-> <<>>, ok |-> FALSE]
            ELSE [bytes |-> PackU8(c.yCode + 256) \o PackU8(c.yModelType + 256)
                              \o strs.bytes \o PackU16(c.constituantCount)
                              \o (IF c.constituantCount > 0
                                  THEN DimensionHeader(c.constituantCount) \o its.bytes
                                  ELSE <<0, 0>>),
                  ok |-> TRUE]
    IN  Packed(wrap_bstrs(c.strings, 1, <<>>),
               wrap_constituantItems(c.constituantItems, 1, c.constituantCount, <<>>))

(* count 4-byte floats from offset on: their bytes, or ok = FALSE for the  *)
(* struct.error of a short buffer                                          *)
parse_floats(stream, offset, count) ==
    IF Fits(stream, offset, 4 * count)
    THEN [ok |-> TRUE, v |-> Slice(stream, offset, offset + 4 * count),
          off |-> offset + 4 * count]
    ELSE [ok |-> FALSE, v |-> <<>>, off |-> NONE]

(* dependentVariableLabels is the list of labels and dependentVariableValue *)
(* the bytes of the floats; for count 0 the source stores b'' and 0, which *)
(* are both the empty sequence here.  A negative count assigns nothing and *)
(* returns the offset after the count.                                     *)
parse_dependentVariables(self, offset) ==
    LET stream == self.asdFileStream
        Record(b, count, labels, values, end, byteStream) ==
            [ret |-> end, exc |-> FALSE, set |-> TRUE,
             val |-> [saveDependentVariables |-> b.v,
                      dependentVariableCount |-> count,
                      dependentVariableLabels |-> labels,
                      dependentVariableValue |-> values,
                      byteStream |-> byteStream,
                      byteStreamLength |-> Len(byteStream)]]
        Ended(b, count, labels, values, end) ==
            Record(b, count, labels, values, end, Slice(stream, offset, end))
        Valued(b, count, labels, values) ==
            IF count > 0 /\ (labels.exc \/ labels.off = NONE) THEN Failed(None)
            ELSE IF count > 0 /\ ~values.ok THEN Failed(None)
            ELSE IF count > 0 THEN Ended(b, count, labels.vs, values.v, values.off)
            ELSE Ended(b, count, <<>>, <<>>, b.off + 6)
        Labelled(b, count, labels) ==
            Valued(b, count, labels, parse_floats(stream, labels.off + 10, count))
        Counted(b, count) ==
            IF count < 0
            THEN [ret |-> b.off + 2, exc |-> FALSE, set |-> FALSE, val |-> None]
            ELSE Labelled(b, count, parse_bstrs(stream, b.off + 12, count, <<>>))
        Flagged(b) ==
            IF b.off = NONE THEN Failed(None)
            ELSE IF ~Fits(stream, b.off, 2) THEN Failed(None)
            ELSE Counted(b, S16(stream, b.off))
        Checked(chk) ==
            IF chk = "raise" THEN Raised(None)
            ELSE IF chk = "skip" THEN Skipped(None)
            ELSE Flagged(parse_Bool(stream, offset))
    IN  Checked(check_offset(stream, offset))

(* the encoder without the 4 zero bytes of the count-0 case *)
wrap_dependentVariables_short(self) ==
    [bytes |-> wrap_Bool(self.dependants.saveDependentVariables)
                 \o PackS16(self.dependants.dependentVariableCount),
     ok |-> TRUE]

wrap_dependentVariables(self) ==
    LET d == self.dependants
        count == d.dependentVariableCount
        Packed(labels) ==
            IF count > 0 /\ (~labels.ok
                             \/ Len(d.dependentVariableLabels) < count
                             \/ Len(d.dependentVariableValue) < 4 * count)
            THEN [bytes |-> <<>>, ok |-> FALSE]
            ELSE [bytes |-> wrap_Bool(d.saveDependentVariables) \o PackS16(count)
                              \o (IF count > 0
                                  THEN DimensionHeader(count)
                                         \o wrap_bstrs(SubSeq(d.dependentVariableLabels,
                                                              1, count), 1, <<>>).bytes
                                         \o DimensionHeader(count)
                                         \o Slice(d.dependentVariableValue, 0, 4 * count)
                                  ELSE IF count = 0 THEN <<0, 0, 0, 0>>
                                  ELSE <<>>),
                  ok |-> TRUE]
    IN  Packed(wrap_bstrs(d.dependentVariableLabels, 1, <<>>))

CalibrationSeriesLength == 29

(* one '<b 20s i h h' record: (cbtype, name stripped of zero bytes, and    *)
(* the 'i' and the two 'h' carried as their 8 bytes)                       *)
parse_calibrationSerie(stream, offset) ==
    [cbtype |-> S8(stream, offset),
     name |-> strip(Slice(stream, offset + 1, offset + 21)),
     gains |-> Slice(stream, offset + 21, offset + 29)]

RECURSIVE parse_calibrationSeries(_, _, _, _)
parse_calibrationSeries(stream, offset, n, acc) ==
    IF n = 0 THEN [ok |-> TRUE, series |-> acc, off |-> offset]
    ELSE IF ~Fits(stream, offset, CalibrationSeriesLength)
    THEN [ok |-> FALSE, series |-> acc, off |-> NONE]
    ELSE parse_calibrationSeries(stream, offset + CalibrationSeriesLength, n - 1,
                                 Append(acc, parse_calibrationSerie(stream, offset)))

parse_calibrationHeader(self, offset) ==
    LET stream == self.asdFileStream
        Record(calibrationHeaderCount, cs, byteStream) ==
            IF ~cs.ok THEN Failed(None)
            ELSE [ret |-> cs.off, exc |-> FALSE, set |-> TRUE,
                  val |-> [calibrationNum |-> calibrationHeaderCount,
                           calibrationSeries |-> cs.series,
                           byteStream |-> byteStream,
                           byteStreamLength |-> Len(byteStream)]]
        Counted(calibrationHeaderCount) ==
            Record(calibrationHeaderCount,
                   parse_calibrationSeries(stream, offset + 1,
                                           Max(calibrationHeaderCount, 0), <<>>),
                   Slice(stream, offset,
                         offset + 1 + CalibrationSeriesLength * calibrationHeaderCount))
        Checked(chk) ==
            IF chk = "raise" THEN Raised(None)
            ELSE IF chk = "skip" THEN Skipped(None)
            ELSE IF ~Fits(stream, offset, 1) THEN Failed(None)
            ELSE Counted(S8(stream, offset))
    IN  Checked(check_offset(stream, offset))

RECURSIVE wrap_calibrationSeries(_, _, _)
wrap_calibrationSeries(series, i, acc) ==
    IF i > Len(series) THEN acc
    ELSE wrap_calibrationSeries(series, i + 1,
            acc \o PackU8(series[i].cbtype + 256)
                \o Slice(ljust(series[i].name, 20), 0, 20) \o series[i].gains)

wrap_calibrationHeader(self) ==
    LET h == self.calibrationHeader
    IN  [bytes |-> PackU8(h.calibrationNum + 256)
                     \o (IF h.calibrationNum > 0
                         THEN wrap_calibrationSeries(h.calibrationSeries, 1, <<>>)
                         ELSE <<>>),
         ok |-> TRUE]

SignatureLength == 128

(* strings holds the 7 bstr fields, userDomain .. publicKey, in order; the *)
(* 'q' signatureTime is carried as its 8 bytes                             *)
parse_signature(self, offset) ==
    LET stream == self.asdFileStream
        Record(strs, byteStream) ==
            [ret |-> strs.off + SignatureLength, exc |-> FALSE, set |-> TRUE,
             val |-> [signed |-> S8(stream, offset),
                      signatureTime |-> Slice(stream, offset + 1, offset + 9),
                      strings |-> strs.vs,
                      signature |-> Slice(stream, strs.off, strs.off + SignatureLength),
                      byteStream |-> byteStream,
                      byteStreamLength |-> Len(byteStream)]]
        Signed(strs) ==
            IF strs.exc \/ strs.off = NONE THEN Failed(None)
            ELSE IF ~Fits(stream, strs.off, SignatureLength) THEN Failed(None)
            ELSE Record(strs, Slice(stream, offset, strs.off + SignatureLength))
        Checked(chk) ==
            IF chk = "raise" THEN Raised(None)
            ELSE IF chk = "skip" THEN Skipped(None)
            ELSE IF ~Fits(stream, offset + 1, 8) THEN Failed(None)
            ELSE Signed(parse_bstrs(stream, offset + 9, 7, <<>>))
    IN  Checked(check_offset(stream, offset))

wrap_signature(self) ==
    LET g == self.signature
        Packed(strs) ==
            IF ~strs.ok THEN [bytes |-> <<>>, ok |-> FALSE]
            ELSE [bytes |-> PackU8(g.signed + 256) \o g.signatureTime \o strs.bytes
                              \o Slice(ljust(g.signature, SignatureLength), 0,
                                       SignatureLength),
                  ok |-> TRUE]
    IN  IF self.signature = None THEN [bytes |-> <<>>, ok |-> FALSE]
        ELSE Packed(wrap_bstrs(g.strings, 1, <<>>))

(***************************************************************************)
(* The audit log.  Texts are str values (sequences of code points); the    *)
(* element names are those of __parse_auditLogEvent.                       *)
(***************************************************************************)
(* "Audit_Event" *)
Audit_Event ==
    <<65, 117, 100, 105, 116, 95, 69, 118, 101, 110, 116>>
(* "Audit_Application" *)
Audit_Application ==
    <<65, 117, 100, 105, 116, 95, 65, 112, 112, 108, 105, 99, 97, 116,
    105, 111, 110>>
(* "Audit_AppVersion" *)
Audit_AppVersion ==
    <<65, 117, 100, 105, 116, 95, 65, 112, 112, 86, 101, 114, 115, 105,
    111, 110>>
(* "Audit_Name" *)
Audit_Name ==
    <<65, 117, 100, 105, 116, 95, 78, 97, 109, 101>>
(* "Audit_Login" *)
Audit_Login ==
    <<65, 117, 100, 105, 116, 95, 76, 111, 103, 105, 110>>
(* "Audit_Time" *)
Audit_Time ==
    <<65, 117, 100, 105, 116, 95, 84, 105, 109, 101>>
(* "Audit_Source" *)
Audit_Source ==
    <<65, 117, 100, 105, 116, 95, 83, 111, 117, 114, 99, 101>>
(* "Audit_Function" *)
Audit_Function ==
    <<65, 117, 100, 105, 116, 95, 70, 117, 110, 99, 116, 105, 111, 110>>
(* "Audit_Notes" *)
Audit_Notes ==
    <<65, 117, 100, 105, 116, 95, 78, 111, 116, 101, 115>>

AuditTags ==
    <<Audit_Application, Audit_AppVersion, Audit_Name, Audit_Login,
      Audit_Time, Audit_Source, Audit_Function, Audit_Notes>>

LT == 60
GT == 62
SLASH == 47
AMP == 38
SPACE == 32

OpenTag(name) == <<LT>> \o name \o <<GT>>
CloseTag(name) == <<LT, SLASH>> \o name \o <<GT>>

(* whether the string t occurs in s at index i (1-based) *)
IsAt(s, i, t) ==
    /\ i + Len(t) - 1 <= Len(s)
    /\ s[i] = t[1]
    /\ SubSeq(s, i, i + Len(t) - 1) = t

SetMin(S) == CHOOSE x \in S : \A y \in S : x <= y

(* the index of the first c in s at or after index i; Len(s) + 1 if none *)
Find(s, i, c) ==
    LET hits == {j \in i..Len(s) : s[j] = c}
    IN  IF hits = {} THEN Len(s) + 1 ELSE SetMin(hits)

RTrim(s) ==
    LET keep == {i \in 1..Len(s) : s[i] # SPACE}
    IN  IF keep = {} THEN <<>>
        ELSE SubSeq(s, 1, CHOOSE i \in keep : \A j \in keep : j <= i)

IsNameStart(c) == (c >= 65 /\ c <= 90) \/ (c >= 97 /\ c <= 122) \/ c = 95
IsNameChar(c) == IsNameStart(c) \/ (c >= 48 /\ c <= 57) \/ c = 45 \/ c = 46
IsName(s) == Len(s) > 0 /\ IsNameStart(s[1]) /\ \A i \in 1..Len(s) : IsNameChar(s[i])

(* character data of the modelled XML subset: the characters of XML from   *)
(* the space on, other than '<' and '&'                                    *)
IsText(s) ==
    \A i \in 1..Len(s) :
        /\ \/ s[i] >= 32 /\ s[i] <= 55295
           \/ s[i] >= 57344 /\ s[i] <= 65533
           \/ s[i] >= 65536 /\ s[i] <= 1114111
        /\ s[i] # LT
        /\ s[i] # AMP

(* The children of the root element, from the content c of the fragment    *)
(* (the text between <Audit_Event> and </Audit_Event>), as ElementTree      *)
(* builds them for the XML subset of character data and leaf elements      *)
(* <n>text</n>, <n/> and <n />: [ok, children], a child being [name, text] *)
(* with text = NoneSeq for an element without text; ok = FALSE is          *)
(* ParseError.  Entities, attributes, comments and nested elements are     *)
(* outside the subset and no input of the model uses them.                 *)
RECURSIVE ParseChildren(_, _, _)
ParseChildren(c, pos, acc) ==
    LET Bad == [ok |-> FALSE, children |-> acc]
        Closed(name, text, gt2, closing) ==
            IF /\ gt2 <= Len(c) /\ IsText(text)
               /\ Len(closing) > 0 /\ closing[1] = SLASH
               /\ RTrim(SubSeq(closing, 2, Len(closing))) = name
            THEN ParseChildren(c, gt2 + 1,
                     Append(acc, [name |-> name,
                                  text |-> IF text = <<>> THEN NoneSeq ELSE text]))
            ELSE Bad
        Ended(name, gt, lt, gt2) ==
            Closed(name, SubSeq(c, gt + 1, lt - 1), gt2, SubSeq(c, lt + 1, gt2 - 1))
        Texted(name, gt, lt) ==
            IF lt > Len(c) THEN Bad ELSE Ended(name, gt, lt, Find(c, lt, GT))
        Named(gt, name, empty) ==
            IF gt > Len(c) \/ ~IsName(name) THEN Bad
            ELSE IF empty THEN
                ParseChildren(c, gt + 1, Append(acc, [name |-> name, text |-> NoneSeq]))
            ELSE Texted(name, gt, Find(c, gt + 1, LT))
        Bodied(gt, body, empty) ==
            Named(gt, RTrim(IF empty THEN SubSeq(body, 1, Len(body) - 1) ELSE body),
                  empty)
        Tagged(gt, body) == Bodied(gt, body, Len(body) > 0 /\ body[Len(body)] = SLASH)
        Opened(gt) == Tagged(gt, SubSeq(c, pos + 1, gt - 1))
        CharData(lt) ==
            IF IsText(SubSeq(c, pos, lt - 1)) THEN ParseChildren(c, lt, acc) ELSE Bad
    IN  IF pos > Len(c) THEN [ok |-> TRUE, children |-> acc]
        ELSE IF c[pos] # LT THEN CharData(Find(c, pos, LT))
        ELSE Opened(Find(c, pos, GT))

(* root.find(tag): the index of the first child named tag, 0 if none *)
FindChild(children, tag) ==
    LET hits == {i \in 1..Len(children) : children[i].name = tag}
    IN  IF hits = {} THEN 0 ELSE SetMin(hits)

(* __parse_auditLogEvent of one fragment <Audit_Event>c</Audit_Event>: the *)
(* 8 texts in the order of AuditTags, or None when ElementTree raises or a *)
(* child is missing (find returns None, and None.text raises)              *)
parse_auditLogEvent(c) ==
    LET Texts(children) ==
            IF \E k \in 1..8 : FindChild(children, AuditTags[k]) = 0 THEN None
            ELSE [texts |-> [k \in 1..8 |->
                               children[FindChild(children, AuditTags[k])].text]]
        Root(p) == IF ~p.ok THEN None ELSE Texts(p.children)
    IN  Root(ParseChildren(c, 1, <<>>))

(* the same pattern with a greedy group: one match, from the first opening *)
(* tag to the last closing tag                                             *)
FindAll_greedy(s) ==
    LET opens == {i \in 1..Len(s) : IsAt(s, i, OpenTag(Audit_Event))}
        closes == {i \in 1..Len(s) : IsAt(s, i, CloseTag(Audit_Event))}
        Last(cs) == CHOOSE j \in cs : \A k \in cs : k <= j
        Matched(o, cs) ==
            IF cs = {} THEN <<>>
            ELSE <<SubSeq(s, o + Len(OpenTag(Audit_Event)), Last(cs) - 1)>>
        Opened(o) == Matched(o, {j \in closes : j >= o + Len(OpenTag(Audit_Event))})
    IN  IF opens = {} THEN <<>> ELSE Opened(SetMin(opens))

(* re.findall(r'<Audit_Event>(.*?)</Audit_Event>', s, DOTALL): the groups  *)
(* of the leftmost non-overlapping matches, each from an opening tag to    *)
(* the first closing tag after it                                          *)
RECURSIVE FindAllFrom(_, _, _, _, _)
FindAllFrom(s, opens, closes, pos, acc) ==
    LET Matched(o, cs) ==
            IF cs = {} THEN acc
            ELSE FindAllFrom(s, opens, closes, SetMin(cs) + Len(CloseTag(Audit_Event)),
                     Append(acc, SubSeq(s, o + Len(OpenTag(Audit_Event)), SetMin(cs) - 1)))
        Opened(o) ==
            Matched(o, {j \in closes : j >= o + Len(OpenTag(Audit_Event))})
        From(os) == IF os = {} THEN acc ELSE Opened(SetMin(os))
    IN  From({i \in opens : i >= pos})

FindAll(s) ==
    FindAllFrom(s,
                {i \in 1..Len(s) : IsAt(s, i, OpenTag(Audit_Event))},
                {i \in 1..Len(s) : IsAt(s, i, CloseTag(Audit_Event))},
                1, <<>>)

(* the characters decoded from b[lo..hi]: the decoder never steps over a   *)
(* byte that is not a continuation byte, so a character is decoded at each *)
(* such byte that starts a well-formed sequence and every other byte is    *)
(* dropped                                                                 *)
RECURSIVE utf8_ignore_from(_, _, _)
utf8_ignore_from(b, lo, hi) ==
    LET Take(k) == IF k = 0 THEN <<>> ELSE <<U8Cp(b, lo, k)>>
    IN  IF lo > hi THEN <<>>
        ELSE IF lo = hi THEN (IF IsCont(b[lo]) THEN <<>> ELSE Take(U8Len(b, lo)))
        ELSE utf8_ignore_from(b, lo, (lo + hi) \div 2)
               \o utf8_ignore_from(b, (lo + hi) \div 2 + 1, hi)

(* bytes.decode('utf-8', errors='ignore'): the bytes of no well-formed     *)
(* sequence are dropped                                                    *)
utf8_decode_ignore(b) ==
    IF \A i \in 1..Len(b) : b[i] <= 127 THEN b ELSE utf8_ignore_from(b, 1, Len(b))

RECURSIVE SumAuditLengths(_, _, _)
SumAuditLengths(groups, i, acc) ==
    IF i > Len(groups) THEN acc
    ELSE SumAuditLengths(groups, i + 1,
             acc + Len(utf8_encode(OpenTag(Audit_Event) \o groups[i]
                                     \o CloseTag(Audit_Event))) + 2)

(* __parse_auditEvents: [ok, events, length]; ok = FALSE is the (None,     *)
(* None) of __check_offset.  Every fragment found in the whole rest of the *)
(* buffer is an event, and each counts its UTF-8 length plus 2.            *)
parse_auditEvents(stream, offset) ==
    LET Events(groups) ==
            [ok |-> TRUE,
             events |-> [i \in 1..Len(groups) |-> parse_auditLogEvent(groups[i])],
             length |-> SumAuditLengths(groups, 1, 0)]
    IN  IF check_offset(stream, offset) # "call"
        THEN [ok |-> FALSE, events |-> <<>>, length |-> NONE]
        ELSE Events(FindAll(utf8_decode_ignore(Slice(stream, offset, NONE))))

(* _escape_cdata of ElementTree *)
RECURSIVE EscapeText(_, _, _)
EscapeText(s, i, acc) ==
    IF i > Len(s) THEN acc
    ELSE EscapeText(s, i + 1,
             acc \o (IF s[i] = AMP THEN <<38, 97, 109, 112, 59>>
                     ELSE IF s[i] = LT THEN <<38, 108, 116, 59>>
                     ELSE IF s[i] = GT THEN <<38, 103, 116, 59>>
                     ELSE << s[i] >>))

(* one SubElement as ET.tostring writes it *)
WrapElement(name, text) ==
    IF text = NoneSeq \/ text = <<>> THEN <<LT>> \o name \o <<SPACE, SLASH, GT>>
    ELSE OpenTag(name) \o EscapeText(text, 1, <<>>) \o CloseTag(name)

RECURSIVE WrapElements(_, _, _)
WrapElements(texts, k, acc) ==
    IF k > 8 THEN acc
    ELSE WrapElements(texts, k + 1, acc \o WrapElement(AuditTags[k], texts[k]))

(* __wrap_auditLogEvent: ok = FALSE is the None it returns for an event    *)
(* that is None                                                            *)
wrap_auditLogEvent(event) ==
    IF event = None THEN [bytes |-> <<>>, ok |-> FALSE]
    ELSE [bytes |-> utf8_encode(OpenTag(Audit_Event)
                                  \o WrapElements(event.texts, 1, <<>>)
                                  \o CloseTag(Audit_Event)),
          ok |-> TRUE]

(* __wrap_auditEvents: the loop accumulates every event in                 *)
(* auditEvents_bstr, but the size and the bytes that are emitted are those *)
(* of auditEvent_bstr, the LAST event; an empty list leaves that name      *)
(* unbound                                                                 *)
wrap_auditEvents(auditEvents) ==
    LET Sized(auditEvent_bstr) ==
            IF Len(auditEvent_bstr) > 32767 THEN [bytes |-> <<>>, ok |-> FALSE]
            ELSE [bytes |-> PackS16(Len(auditEvent_bstr)) \o auditEvent_bstr,
                  ok |-> TRUE]
        Wrapped(ws) ==
            IF \E i \in 1..Len(ws) : ~ws[i].ok THEN [bytes |-> <<>>, ok |-> FALSE]
            ELSE Sized(ws[Len(ws)].bytes)
    IN  IF auditEvents = <<>> THEN [bytes |-> <<>>, ok |-> FALSE]
        ELSE Wrapped([i \in 1..Len(auditEvents) |-> wrap_auditLogEvent(auditEvents[i])])

(* __parse_auditLog: the count is a native 'l'.  auditEvents is bound only *)
(* for a count above 0, so a count of 0 or less ends in UnboundLocalError. *)
parse_auditLog(self, offset) ==
    LET stream == self.asdFileStream
        Record(additCount, ev, end, byteStream) ==
            [ret |-> end, exc |-> FALSE, set |-> TRUE,
             val |-> [auditCount |-> additCount,
                      auditEvents |-> ev.events,
                      byteStream |-> byteStream,
                      byteStreamLength |-> Len(byteStream)]]
        Ended(additCount, ev, end) ==
            Record(additCount, ev, end, Slice(stream, offset, end))
        Logged(additCount, ev) ==
            IF ~ev.ok THEN Failed(None)
            ELSE Ended(additCount, ev, offset + longSize + 10 + ev.length)
        Counted(additCount) ==
            IF additCount <= 0 THEN Failed(None)
            ELSE Logged(additCount, parse_auditEvents(stream, offset + longSize + 10))
        Checked(chk) ==
            IF chk = "raise" THEN Raised(None)
            ELSE IF chk = "skip" THEN Skipped(None)
            ELSE IF ~Fits(stream, offset, longSize) THEN Failed(None)
            ELSE Counted(SLong(stream, offset, longSize))
    IN  Checked(check_offset(stream, offset))

wrap_auditLog(self) ==
    LET a == self.auditLog
        Packed(ev) ==
            IF a.auditCount > 0 /\ ~ev.ok THEN [bytes |-> <<>>, ok |-> FALSE]
            ELSE [bytes |-> PackSLong(a.auditCount, longSize)
                              \o (IF a.auditCount > 0
                                  THEN DimensionHeader(a.auditCount) \o ev.bytes
                                  ELSE <<>>),
                  ok |-> TRUE]
    IN  IF self.auditLog = None THEN [bytes |-> <<>>, ok |-> FALSE]
        ELSE Packed(wrap_auditEvents(a.auditEvents))

(***************************************************************************)
(* read.  The state threaded through its try blocks is [self, offset, log, *)
(* exc]: the object, the local variable offset, one log entry per parser   *)
(* call (the offset it was given, what it returned, whether it raised and  *)
(* whether it assigned its attribute), and whether the last call raised.   *)
(***************************************************************************)
BOM == <<255, 254, 253>>
NoFile == <<-1>>

(* lines 71-80: the buffer and the trailing marker.  A path that is no     *)
(* file leaves the buffer of the previous read; a file without the marker  *)
(* leaves __bom as it was.                                                 *)
LoadFile(self, file) ==
    IF file = NoFile THEN self
    ELSE IF Len(file) >= 3 /\ SubSeq(file, Len(file) - 2, Len(file)) = BOM
    THEN [self EXCEPT !.asdFileStream = SubSeq(file, 1, Len(file) - 3), !.bom = BOM]
    ELSE [self EXCEPT !.asdFileStream = file]

LogEntry(sec, idx, at, r) ==
    [sec |-> sec, idx |-> idx, at |-> at, ret |-> r.ret, exc |-> r.exc, set |-> r.set]

(* the attribute a section parser assigns *)
Assign(self, sec, val) ==
    CASE sec = "metadata" -> [self EXCEPT !.metadata = val]
      [] sec = "spectrumData" -> [self EXCEPT !.spectrumData = val]
      [] sec = "referenceFileHeader" -> [self EXCEPT !.referenceFileHeader = val]
      [] sec = "referenceData" -> [self EXCEPT !.referenceData = val]
      [] sec = "classifierData" -> [self EXCEPT !.classifierData = val]
      [] sec = "dependants" -> [self EXCEPT !.dependants = val]
      [] sec = "calibrationHeader" -> [self EXCEPT !.calibrationHeader = val]
      [] sec = "auditLog" -> [self EXCEPT !.auditLog = val]
      [] sec = "signature" -> [self EXCEPT !.signature = val]

(* offset = self.__parse_X(offset) in a try: r is what the parser did *)
Step(st, sec, r) ==
    [self |-> IF r.set THEN Assign(st.self, sec, r.val) ELSE st.self,
     offset |-> IF r.exc THEN st.offset ELSE r.ret,
     log |-> Append(st.log, LogEntry(sec, 0, st.offset, r)),
     exc |-> r.exc]

(* the arguments of np.arange, which is what __wavelengths is made of *)
Wavelengths(metadata) ==
    [start |-> channel1Wavelength(metadata),
     channels |-> metadata.channels,
     step |-> wavelengthStep(metadata)]

(* lines 83-93: the np.arange call shares the try of __parse_metadata, so  *)
(* the spectrum is parsed only when both went through; self.metadata is    *)
(* the attribute, whatever assigned it                                     *)
read_spectrum(st) ==
    LET Spectrum(st2) ==
            Step(st2, "spectrumData", parse_spectrumData(st2.self, st2.offset))
        Arange(st1) ==
            IF st1.exc THEN st1
            ELSE IF st1.self.metadata = None THEN [st1 EXCEPT !.exc = TRUE]
            ELSE IF ArangeRaises(st1.self.metadata) THEN [st1 EXCEPT !.exc = TRUE]
            ELSE Spectrum([st1 EXCEPT
                             !.self.wavelengths = Wavelengths(st1.self.metadata)])
    IN  IF st.self.asdFileVersion > 0
        THEN Arange(Step(st, "metadata", parse_metadata(st.self, st.offset)))
        ELSE st

(* lines 94-103 *)
read_reference(st) ==
    LET Data(st1) ==
            IF st1.exc THEN st1
            ELSE Step(st1, "referenceData", parse_referenceData(st1.self, st1.offset))
    IN  IF st.self.asdFileVersion >= 2
        THEN Data(Step(st, "referenceFileHeader",
                       parse_referenceFileHeader(st.self, st.offset)))
        ELSE st

(* the classifier block opened one version early *)
read_classifier_gate5(st) ==
    LET Dependants(st1) ==
            IF st1.exc THEN st1
            ELSE Step(st1, "dependants", parse_dependentVariables(st1.self, st1.offset))
    IN  IF st.self.asdFileVersion >= 5
        THEN Dependants(Step(st, "classifierData",
                             parse_classifierData(st.self, st.offset)))
        ELSE st

(* lines 104-114 *)
read_classifier(st) ==
    LET Dependants(st1) ==
            IF st1.exc THEN st1
            ELSE Step(st1, "dependants", parse_dependentVariables(st1.self, st1.offset))
    IN  IF st.self.asdFileVersion >= 6
        THEN Dependants(Step(st, "classifierData",
                             parse_classifierData(st.self, st.offset)))
        ELSE st

(* a slot that keeps the block of the first descriptor of its tag *)
AssignSeries_first(self, tag, spectra) ==
    CASE tag = 0 -> IF self.calibrationSeriesABS # NoneSeq THEN self
                    ELSE [self EXCEPT !.calibrationSeriesABS = spectra]
      [] tag = 1 -> IF self.calibrationSeriesBSE # NoneSeq THEN self
                    ELSE [self EXCEPT !.calibrationSeriesBSE = spectra]
      [] tag = 2 -> IF self.calibrationSeriesLMP # NoneSeq THEN self
                    ELSE [self EXCEPT !.calibrationSeriesLMP = spectra]
      [] tag = 3 -> IF self.calibrationSeriesFO # NoneSeq THEN self
                    ELSE [self EXCEPT !.calibrationSeriesFO = spectra]

(* the slot of a calibration tag *)
AssignSeries(self, tag, spectra) ==
    CASE tag = 0 -> [self EXCEPT !.calibrationSeriesABS = spectra]
      [] tag = 1 -> [self EXCEPT !.calibrationSeriesBSE = spectra]
      [] tag = 2 -> [self EXCEPT !.calibrationSeriesLMP = spectra]
      [] tag = 3 -> [self EXCEPT !.calibrationSeriesFO = spectra]

(* lines 125-133: one pass of the loop per entry of calibrationSeries, in  *)
(* the order of the list.  The 4-tuple of __parse_spectra is assigned to   *)
(* the slot of the tag and to offset even when it is four None; the        *)
(* 2-tuple of __check_offset cannot be unpacked into 4 names (ValueError), *)
(* which ends the loop with nothing assigned.                              *)
RECURSIVE read_calibrationSeries(_, _)
read_calibrationSeries(st, i) ==
    LET Logged(log, tag, r) ==
            IF r.kind # "four" THEN [st EXCEPT !.log = log, !.exc = TRUE]
            ELSE read_calibrationSeries(
                     [self |-> AssignSeries(st.self, tag, r.spectra), offset |-> r.off,
                      log |-> log, exc |-> FALSE], i + 1)
        Spectra(tag, r) ==
            Logged(Append(st.log,
                          [sec |-> "calibrationSeries", idx |-> i, at |-> st.offset,
                           ret |-> IF r.kind = "two" THEN NONE2 ELSE r.off,
                           exc |-> r.kind # "four", set |-> r.kind = "four"]),
                   tag, r)
        Tagged(tag) ==
            IF tag \notin 0..3 THEN read_calibrationSeries(st, i + 1)
            ELSE Spectra(tag, parse_spectra(st.self, st.offset))
    IN  IF i > Len(st.self.calibrationHeader.calibrationSeries) THEN st
        ELSE Tagged(st.self.calibrationHeader.calibrationSeries[i].cbtype)

(* lines 115-137 *)
read_calibration(st) ==
    LET Series(st1) ==
            IF st1.exc THEN st1
            ELSE IF st1.self.calibrationHeader = None THEN st1
            ELSE IF st1.self.calibrationHeader.calibrationNum > 0
            THEN read_calibrationSeries(st1, 1)
            ELSE st1
    IN  IF st.self.asdFileVersion >= 7
        THEN Series(Step(st, "calibrationHeader",
                         parse_calibrationHeader(st.self, st.offset)))
        ELSE st

(* lines 138-149 *)
read_audit(st) ==
    LET Signature(st1) ==
            IF st1.exc THEN st1
            ELSE Step(st1, "signature", parse_signature(st1.self, st1.offset))
    IN  IF st.self.asdFileVersion >= 8
        THEN Signature(Step(st, "auditLog", parse_auditLog(st.self, st.offset)))
        ELSE st

(* read(filePath) on the object self, file being what the path holds:     *)
(* [self, log, ret].  readSuccess is set True on every path to the return. *)
read(self, file) ==
    LET Versioned(s1, version) ==
            [self |-> [s1 EXCEPT !.asdFileVersion = version],
             offset |-> 3, log |-> <<>>, exc |-> FALSE]
        Loaded(s1) == Versioned(s1, validate_fileVersion(s1.asdFileStream))
        Sections(st0) ==
            read_audit(read_calibration(read_classifier(read_reference(
                read_spectrum(st0)))))
        Returned(st) == [self |-> st.self, log |-> st.log, ret |-> TRUE]
    IN  Returned(Sections(Loaded(LoadFile(self, file))))

(***************************************************************************)
(* write.  The state threaded through it is [bytes, raised, log]: what has *)
(* been handed to fileHandle.write so far, whether an exception has left   *)
(* write (nothing catches it), and one entry per section emitted: its      *)
(* name, where it starts in the output and its length.                     *)
(***************************************************************************)
Emit(out, cond, sec, idx, w) ==
    IF out.raised \/ ~cond THEN out
    ELSE IF ~w.ok THEN [out EXCEPT !.raised = TRUE]
    ELSE [bytes |-> out.bytes \o w.bytes,
          raised |-> FALSE,
          log |-> Append(out.log, [sec |-> sec, idx |-> idx,
                                   at |-> Len(out.bytes), len |-> Len(w.bytes)])]

(* the populated slots packed in the fixed order ABS, BSE, LMP, FO *)
write_calibrationSeries_fixed(self, out, i) ==
    Emit(Emit(Emit(Emit(out, self.calibrationSeriesABS # NoneSeq, "calibrationSeries",
                        1, wrap_spectra(self, self.calibrationSeriesABS)),
                   self.calibrationSeriesBSE # NoneSeq, "calibrationSeries",
                   2, wrap_spectra(self, self.calibrationSeriesBSE)),
              self.calibrationSeriesLMP # NoneSeq, "calibrationSeries",
              3, wrap_spectra(self, self.calibrationSeriesLMP)),
         self.calibrationSeriesFO # NoneSeq, "calibrationSeries",
         4, wrap_spectra(self, self.calibrationSeriesFO))

(* lines 204-223: calibrationSeries[i][0] selects the slot that is packed; *)
(* an index past the list is IndexError                                    *)
RECURSIVE write_calibrationSeries(_, _, _)
write_calibrationSeries(self, out, i) ==
    LET h == self.calibrationHeader
        tag == h.calibrationSeries[i].cbtype
        slot == CASE tag = 0 -> self.calibrationSeriesABS
                  [] tag = 1 -> self.calibrationSeriesBSE
                  [] tag = 2 -> self.calibrationSeriesLMP
                  [] tag = 3 -> self.calibrationSeriesFO
    IN  IF out.raised \/ i > h.calibrationNum THEN out
        ELSE IF i > Len(h.calibrationSeries) THEN [out EXCEPT !.raised = TRUE]
        ELSE IF tag \notin 0..3 THEN write_calibrationSeries(self, out, i + 1)
        ELSE write_calibrationSeries(self,
                 Emit(out, TRUE, "calibrationSeries", i, wrap_spectra(self, slot)),
                 i + 1)

(* write(file): [bytes, raised, log]; bytes is what the file holds when    *)
(* write returns or raises (the with statement closes it either way)       *)
write(self) ==
    LET v == self.asdFileVersion
        o0 == [bytes |-> <<>>, raised |-> FALSE, log |-> <<>>]
        o1 == Emit(o0, v > 0, "version", 0,
                   [bytes |-> setFileVersion(v), ok |-> TRUE])
        o2 == Emit(o1, v > 0 /\ self.metadata # None, "metadata", 0,
                   wrap_metadata(self))
        o3 == Emit(o2, v > 0 /\ self.spectrumData # None, "spectrumData", 0,
                   wrap_spectrumData(self))
        o4 == Emit(o3, v >= 2 /\ self.referenceFileHeader # None,
                   "referenceFileHeader", 0, wrap_referenceFileHeader(self))
        o5 == Emit(o4, v >= 2 /\ self.referenceData # None, "referenceData", 0,
                   wrap_referenceData(self))
        o6 == Emit(o5, v >= 2 /\ self.classifierData # None, "classifierData", 0,
                   wrap_classifierData(self))
        o7 == Emit(o6, v >= 2 /\ self.dependants # None, "dependants", 0,
                   wrap_dependentVariables(self))
        o8 == Emit(o7, v >= 7 /\ self.calibrationHeader # None,
                   "calibrationHeader", 0, wrap_calibrationHeader(self))
        o9 == IF v >= 7 /\ self.calibrationHeader # None
              THEN write_calibrationSeries(self, o8, 1)
              ELSE o8
        o10 == Emit(o9, v >= 8, "auditLog", 0, wrap_auditLog(self))
        o11 == Emit(o10, v >= 8, "signature", 0, wrap_signature(self))
    IN  Emit(o11, self.bom # NoneSeq, "bom", 0, [bytes |-> self.bom, ok |-> TRUE])

(***************************************************************************)
(* The files of the model: ASD files laid out as the format has them, one  *)
(* per description d = [tag, v, ch, cal, ev, marker, bad, cut]:            *)
(*   tag     the version the tag names (1..8)                              *)
(*   v       the version whose sections the body holds (1..8)             *)
(*   ch      metadata.channels                                             *)
(*   cal     the tags of the calibration header, in file order             *)
(*   ev      the count and number of events of the audit log               *)
(*   marker  whether the file ends with FF FE FD                           *)
(*   bad     what is wrong in the file ("none": nothing)                   *)
(*   cut     the length the body is truncated to (NONE: not truncated)     *)
(***************************************************************************)
MaxChannels == 2
MaxEvents == 2
MaxOps == 3

F32_350 == <<0, 0, 175, 67>>
F32_1 == <<0, 0, 128, 63>>
F32_0 == <<0, 0, 0, 0>>

(* the 9 shorts of 2024-11-06 12:15:30, a Wednesday, day 310 of the year *)
GoodWhen ==
    PackS16(30) \o PackS16(15) \o PackS16(12) \o PackS16(6) \o PackS16(10)
      \o PackS16(124) \o PackS16(3) \o PackS16(310) \o PackS16(0)

(* the same instant with the weekday and the day of the year left 0 *)
PlainWhen ==
    PackS16(30) \o PackS16(15) \o PackS16(12) \o PackS16(6) \o PackS16(10)
      \o PackS16(124) \o PackS16(0) \o PackS16(0) \o PackS16(0)

(* the concatenation of the byte strings of a list *)
RECURSIVE Concat(_, _, _)
Concat(parts, i, acc) ==
    IF i > Len(parts) THEN acc ELSE Concat(parts, i + 1, acc \o parts[i])

Bstr(s) == PackS16(Len(s)) \o s

(* n doubles 1.0 whose lowest byte is seed, seed + 1, .. *)
Doubles(n, seed) ==
    [k \in 1..(8 * n) |->
        CASE (k - 1) % 8 = 0 -> seed + ((k - 1) \div 8)
          [] (k - 1) % 8 = 6 -> 240
          [] (k - 1) % 8 = 7 -> 63
          [] OTHER -> 0]

TagOf(d) ==
    CASE d.bad = "tag9" -> asN(9)
      [] d.bad = "tag0" -> asN(0)
      [] d.bad = "tagCase" -> <<97, 115, 100>>
      [] d.bad = "tagAs1" -> asN(1)
      [] d.tag = 1 -> ASD
      [] OTHER -> asN(d.tag)

MetadataOf(d) ==
    ljust(CASE d.bad = "comments0" -> <<0, 0, 104, 105>>
            [] OTHER -> <<104, 105>>, 157)
      \o (CASE d.bad = "when" -> Zeros(18)
            [] d.bad = "whenPlain" -> PlainWhen
            [] OTHER -> GoodWhen)
      \o Zeros(13) \o F32_350
      \o (IF d.bad = "step0" THEN F32_0 ELSE F32_1)
      \o Zeros(5) \o PackU16(d.ch) \o Zeros(278)

ReferenceHeaderOf(d) ==
    (IF d.bad = "refBool" THEN <<1, 0>> ELSE <<255, 255>>)
      \o Fill(8, 3) \o Fill(8, 4)
      \o (IF d.bad = "refLen" THEN <<255, 255>> ELSE Bstr(<<114, 101, 102>>))

ClassifierOf(d) ==
    <<1, 255>> \o Bstr(<<84>>) \o Zeros(38)
      \o (CASE d.bad = "item" ->
                 PackU16(1) \o DimensionHeader(1) \o <<255, 255>>
            [] d.bad = "item1" ->
                 PackU16(1) \o DimensionHeader(1) \o Bstr(<<97>>) \o Bstr(<<80>>)
                   \o Fill(ConstituantTailLength, 7)
            [] OTHER -> PackU16(0) \o <<0, 0>>)

DependentsOf(d) ==
    (IF d.bad = "depBool" THEN <<1, 1>> ELSE <<0, 0>>)
      \o (CASE d.bad = "dep0" -> PackS16(0) \o Zeros(4)
            [] d.bad = "depNeg" -> PackS16(-1)
            [] OTHER -> PackS16(1) \o DimensionHeader(1) \o Bstr(<<121>>)
                          \o DimensionHeader(1) \o F32_1)

(* "calNeg": the count byte FF, the signed count -1, and nothing after it *)
CalibrationHeaderOf(d) ==
    IF d.bad = "calNeg" THEN PackU8(255)
    ELSE PackU8(Len(d.cal))
      \o Concat([i \in 1..Len(d.cal) |->
                    PackU8(d.cal[i]) \o ljust(<<99, 48 + i>>, 20) \o Fill(8, i)],
                1, <<>>)

CalibrationDataOf(d) ==
    IF d.bad = "calNeg" THEN <<>>
    ELSE [i \in 1..Len(d.cal) |->
            IF d.cal[i] \in 0..3 THEN Doubles(d.ch, 16 * i) ELSE <<>>]

(* event k as __wrap_auditLogEvent writes it: 8 texts of 2 characters,     *)
(* the last element without text                                           *)
EventOf(k) ==
    [texts |-> [j \in 1..8 |-> IF j = 8 THEN NoneSeq ELSE <<64 + j, 48 + k>>]]

EventBytesOf(d, k) ==
    CASE d.bad = "event" /\ k = 1 ->
             utf8_encode(OpenTag(Audit_Event)
                           \o WrapElement(Audit_Application, <<65>>)
                           \o CloseTag(Audit_Event))
      [] d.bad = "eventLong" /\ k = 1 ->
             utf8_encode(OpenTag(Audit_Event)
                           \o WrapElements(EventOf(k).texts, 1, <<>>)
                           \o OpenTag(Audit_Notes) \o CloseTag(Audit_Notes)
                           \o CloseTag(Audit_Event))
      [] OTHER -> wrap_auditLogEvent(EventOf(k)).bytes

AuditLogOf(d, n) ==
    PackSLong(d.ev, n)
      \o (IF d.ev > 0
          THEN DimensionHeader(d.ev)
                 \o Concat([k \in 1..d.ev |->
                               PackS16(Len(EventBytesOf(d, k))) \o EventBytesOf(d, k)],
                           1, <<>>)
          ELSE <<>>)

SignatureOf(d) ==
    <<1>> \o Fill(8, 9) \o Bstr(<<100>>) \o Zeros(12) \o Fill(SignatureLength, 5)

(* the sections of the file of d, in file order; n is the size of 'l' on   *)
(* the machine that wrote the file                                         *)
Layout(d, n) ==
    <<TagOf(d), MetadataOf(d), Doubles(d.ch, 1)>>
      \o (IF d.v >= 2 THEN <<ReferenceHeaderOf(d), Doubles(d.ch, 8)>> ELSE <<>>)
      \o (IF d.v >= 6 THEN <<ClassifierOf(d), DependentsOf(d)>> ELSE <<>>)
      \o (IF d.v >= 7 THEN <<CalibrationHeaderOf(d)>> \o CalibrationDataOf(d) ELSE <<>>)
      \o (IF d.v >= 8 THEN <<AuditLogOf(d, n), SignatureOf(d)>> ELSE <<>>)

RECURSIVE SumLen(_, _)
SumLen(parts, k) == IF k = 0 THEN 0 ELSE SumLen(parts, k - 1) + Len(parts[k])

(* where each section of the file starts and where the last one ends *)
Boundaries(d, n) == {SumLen(Layout(d, n), k) : k \in 1..Len(Layout(d, n))}

FileOf(d, n) ==
    LET body == Concat(Layout(d, n), 1, <<>>)
    IN  (IF d.cut = NONE THEN body ELSE Slice(body, 0, d.cut))
          \o (IF d.marker THEN BOM ELSE <<>>)

Base ==
    [tag |-> 8, v |-> 8, ch |-> 1, cal |-> <<0>>, ev |-> 1, marker |-> FALSE,
     bad |-> "none", cut |-> NONE]

CalLists == {<<>>, <<0, 0>>, <<2, 0, 2>>, <<1, 3>>, <<4, 0>>, <<3, 2, 1, 0>>}

Bads ==
    {"tag9", "tag0", "tagCase", "tagAs1", "comments0", "when", "whenPlain",
     "step0", "refBool", "refLen", "item", "item1", "depBool", "dep0",
     "depNeg", "calNeg", "event", "eventLong"}

(* truncations of the body: at, one before and one after each boundary *)
Cuts(d, n) ==
    {b + k : b \in Boundaries(d, n), k \in {-1, 0, 1}} \ {SumLen(Layout(d, n), Len(Layout(d, n)))}

Descriptions(n) ==
    {[Base EXCEPT !.tag = v, !.v = v, !.marker = m] : v \in 1..8, m \in BOOLEAN}
      \cup {[Base EXCEPT !.tag = t] : t \in 1..8}
      \cup {[Base EXCEPT !.tag = v, !.v = v, !.ch = 0] : v \in {1, 2, 7}}
      \cup {[Base EXCEPT !.ch = c] : c \in 0..MaxChannels}
      \cup {[Base EXCEPT !.cal = c] : c \in CalLists}
      \cup {[Base EXCEPT !.ev = e] : e \in 0..MaxEvents}
      \cup {[Base EXCEPT !.bad = b] : b \in Bads}
      \cup {[Base EXCEPT !.cut = c] : c \in Cuts(Base, n)}
      \cup {[Base EXCEPT !.cut = c, !.marker = TRUE] : c \in {0, 2, 3, 484}}
      \cup {[Base EXCEPT !.tag = 7, !.v = 7, !.cal = <<0, 0>>, !.cut = c] :
               c \in Cuts([Base EXCEPT !.tag = 7, !.v = 7, !.cal = <<0, 0>>], n)}

(* the file at path "other": version 2, 2 channels, no marker *)
OtherFile == FileOf([Base EXCEPT !.tag = 2, !.v = 2, !.ch = 2], 4)

Paths == {"in", "other", "out"}
OutPaths == {"out"}

(***************************************************************************)
(* The state machine.  written and ops are history: the object the last   *)
(* write was called on, whether that write raised and the operation before *)
(* it; and the number of read and write calls made so far.                 *)
(***************************************************************************)
Init ==
    /\ longSize \in {4, 8}
    /\ \E d \in Descriptions(longSize) :
           fs = [p \in Paths |->
                    CASE p = "in" -> FileOf(d, longSize)
                      [] p = "other" -> OtherFile
                      [] OTHER -> NoFile]
    /\ asdFile = NewASDFile
    /\ fresh = TRUE
    /\ lastOp = [name |-> "init", path |-> "", ret |-> FALSE, raised |-> FALSE,
                 onFresh |-> TRUE]
    /\ trace = <<>>
    /\ written = None
    /\ ops = 0

(* ASDFile(): a new object takes the place of the one in use *)
New ==
    /\ ~fresh
    /\ asdFile' = NewASDFile
    /\ fresh' = TRUE
    /\ lastOp' = [name |-> "new", path |-> "", ret |-> FALSE, raised |-> FALSE,
                  onFresh |-> FALSE]
    /\ trace' = <<>>
    /\ UNCHANGED <<fs, longSize, written, ops>>

(* asdFile.read(p) *)
Read(p) ==
    LET Done(r) ==
            /\ asdFile' = r.self
            /\ trace' = r.log
            /\ lastOp' = [name |-> "read", path |-> p, ret |-> r.ret,
                          raised |-> FALSE, onFresh |-> fresh]
    IN  /\ ops < MaxOps
        /\ Done(read(asdFile, fs[p]))
        /\ fresh' = FALSE
        /\ ops' = ops + 1
        /\ UNCHANGED <<fs, longSize, written>>

(* asdFile.write(p): os.remove and open(p, 'wb') leave an empty file, and  *)
(* what write hands to the file before it returns or raises stays in it    *)
Write(p) ==
    LET Done(w) ==
            /\ fs' = [fs EXCEPT ![p] = w.bytes]
            /\ trace' = w.log
            /\ lastOp' = [name |-> "write", path |-> p, ret |-> ~w.raised,
                          raised |-> w.raised, onFresh |-> fresh]
            /\ written' = [self |-> asdFile, raised |-> w.raised, after |-> lastOp]
    IN  /\ ops < MaxOps
        /\ Done(write(asdFile))
        /\ ops' = ops + 1
        /\ UNCHANGED <<asdFile, longSize, fresh>>

Next ==
    \/ New
    \/ \E p \in Paths : Read(p)
    \/ \E p \in OutPaths : Write(p)

Spec == Init /\ [][Next]_vars

(***************************************************************************)
(* The properties of read and write.                                       *)
(***************************************************************************)
(* the last operation was a read on an object no read had run on before,   *)
(* of a path that holds a file                                             *)
FreshRead ==
    /\ lastOp.name = "read"
    /\ lastOp.onFresh
    /\ fs[lastOp.path] # NoFile

(* the buffer the decoders of the last read worked on *)
Buffer == asdFile.asdFileStream

EndsWithMarker(file) ==
    Len(file) >= 3 /\ SubSeq(file, Len(file) - 2, Len(file)) = BOM

(* whether a section is populated (not None) on the object *)
Populated(self, sec) ==
    CASE sec = "metadata" -> self.metadata # None
      [] sec = "spectrumData" -> self.spectrumData # None
      [] sec = "referenceFileHeader" -> self.referenceFileHeader # None
      [] sec = "referenceData" -> self.referenceData # None
      [] sec = "classifierData" -> self.classifierData # None
      [] sec = "dependants" -> self.dependants # None
      [] sec = "calibrationHeader" -> self.calibrationHeader # None
      [] sec = "calibrationSeriesABS" -> self.calibrationSeriesABS # NoneSeq
      [] sec = "calibrationSeriesBSE" -> self.calibrationSeriesBSE # NoneSeq
      [] sec = "calibrationSeriesLMP" -> self.calibrationSeriesLMP # NoneSeq
      [] sec = "calibrationSeriesFO" -> self.calibrationSeriesFO # NoneSeq
      [] sec = "auditLog" -> self.auditLog # None
      [] sec = "signature" -> self.signature # None

SeriesSections ==
    {"calibrationSeriesABS", "calibrationSeriesBSE", "calibrationSeriesLMP",
     "calibrationSeriesFO"}

(* the sections of each version threshold *)
SectionsSince(v) ==
    CASE v = 1 -> {"metadata", "spectrumData"}
      [] v = 2 -> {"referenceFileHeader", "referenceData"}
      [] v = 6 -> {"classifierData", "dependants"}
      [] v = 7 -> {"calibrationHeader"} \cup SeriesSections
      [] v = 8 -> {"auditLog", "signature"}

OptionalSections ==
    SectionsSince(2) \cup SectionsSince(6) \cup SectionsSince(7) \cup SectionsSince(8)

(* C2: after read on a freshly constructed object of a buffer that         *)
(* resolves to version V, the sections of the thresholds 2, 6, 7 and 8 are *)
(* populated only if V is at least the threshold; for V = 1 all of them    *)
(* are absent.                                                             *)
C2_VersionGating ==
    FreshRead =>
        /\ \A t \in {2, 6, 7, 8} : \A sec \in SectionsSince(t) :
               Populated(asdFile, sec) => asdFile.asdFileVersion >= t
        /\ asdFile.asdFileVersion = 1 =>
               \A sec \in OptionalSections : ~Populated(asdFile, sec)

(* a version-6 read of a body that holds the sections of version 8:        *)
(* classifier and dependent variables are populated, what follows is not   *)
C2_Witness ==
    /\ FreshRead
    /\ asdFile.asdFileVersion = 6
    /\ Len(Buffer) > 1000
    /\ Populated(asdFile, "classifierData")
    /\ Populated(asdFile, "dependants")
    /\ ~Populated(asdFile, "calibrationHeader")
    /\ ~Populated(asdFile, "auditLog")

(* C3: read resolves the version from the first 3 bytes, "ASD" to 1 and    *)
(* "asN" to N for N in 2..8, and for every version V in 1..8 write emits   *)
(* as its first 3 bytes the tag that read resolves back to V.              *)
C3_VersionTag ==
    /\ FreshRead =>
          /\ Slice(Buffer, 0, 3) = <<65, 83, 68>> => asdFile.asdFileVersion = 1
          /\ \A n \in 2..8 :
                Slice(Buffer, 0, 3) = <<97, 115, 48 + n>> => asdFile.asdFileVersion = n
    /\ (lastOp.name = "write" /\ asdFile.asdFileVersion \in 1..8) =>
          Slice(fs[lastOp.path], 0, 3) =
              (IF asdFile.asdFileVersion = 1 THEN <<65, 83, 68>>
               ELSE <<97, 115, 48 + asdFile.asdFileVersion>>)
    /\ (FreshRead /\ lastOp.path = "out" /\ written # None
          /\ written.self.asdFileVersion \in 1..8) =>
          asdFile.asdFileVersion = written.self.asdFileVersion

(* a version-5 file was read, written, and the output read back as 5 *)
C3_Witness ==
    /\ FreshRead
    /\ lastOp.path = "out"
    /\ written # None
    /\ written.self.asdFileVersion = 5
    /\ asdFile.asdFileVersion = 5

AllSections == SectionsSince(1) \cup OptionalSections

InvalidTag(buffer) ==
    /\ Slice(buffer, 0, 3) # <<65, 83, 68>>
    /\ \A n \in 2..8 : Slice(buffer, 0, 3) # <<97, 115, 48 + n>>

(* C4: for a buffer whose first 3 bytes are none of the eight tags (or     *)
(* that is shorter than 3 bytes), read reports failure to its caller and   *)
(* populates no section.                                                   *)
C4_InvalidTagFails ==
    (FreshRead /\ InvalidTag(Buffer)) =>
        /\ lastOp.ret = FALSE
        /\ \A sec \in AllSections : ~Populated(asdFile, sec)

(* C5: when the buffer holds fewer than 481 bytes after the tag, or fewer  *)
(* than channels * 8 bytes after the metadata, read reports failure and no *)
(* spectrum record is populated.                                           *)
C5_MandatoryFailureFails ==
    (/\ FreshRead
     /\ asdFile.asdFileVersion >= 1
     /\ \/ Len(Buffer) < 3 + MetadataLength
        \/ /\ asdFile.metadata # None
           /\ Len(Buffer) < 3 + MetadataLength + 8 * asdFile.metadata.channels) =>
        /\ lastOp.ret = FALSE
        /\ ~Populated(asdFile, "spectrumData")

(* a log entry of a parser that failed: it raised or returned None *)
FailedEntry(e) == e.exc \/ e.ret = NONE

(* a populated section holds no None where the decoder puts a value *)
Complete(self, sec) ==
    CASE sec = "spectrumData" -> self.spectrumData.spectra # NoneSeq
      [] sec = "referenceFileHeader" ->
             self.referenceFileHeader.referenceDescription # NoneSeq
      [] sec = "referenceData" -> self.referenceData.spectra # NoneSeq
      [] sec = "classifierData" ->
             \A i \in 1..Len(self.classifierData.constituantItems) :
                 self.classifierData.constituantItems[i] # None
      [] sec = "auditLog" ->
             \A i \in 1..Len(self.auditLog.auditEvents) :
                 self.auditLog.auditEvents[i] # None
      [] OTHER -> TRUE

(* C6: when the decoder of an optional section fails during read, the      *)
(* section's field is left absent, and no optional section is ever         *)
(* populated with a partial or null-filled record.                         *)
C6_FailedSectionAbsent ==
    FreshRead =>
        /\ \A k \in 1..Len(trace) :
              (/\ trace[k].sec \in OptionalSections
               /\ FailedEntry(trace[k])) => ~Populated(asdFile, trace[k].sec)
        /\ \A sec \in OptionalSections \ {"auditLog"} :
              Populated(asdFile, sec) => Complete(asdFile, sec)

(* the slot of a calibration tag *)
Slot(self, tag) ==
    CASE tag = 0 -> self.calibrationSeriesABS
      [] tag = 1 -> self.calibrationSeriesBSE
      [] tag = 2 -> self.calibrationSeriesLMP
      [] tag = 3 -> self.calibrationSeriesFO

SeriesTag(sec) ==
    CASE sec = "calibrationSeriesABS" -> 0
      [] sec = "calibrationSeriesBSE" -> 1
      [] sec = "calibrationSeriesLMP" -> 2
      [] sec = "calibrationSeriesFO" -> 3

(* the tag of the descriptor a calibrationSeries log entry belongs to *)
TagOfEntry(self, e) == self.calibrationHeader.calibrationSeries[e.idx].cbtype

(* C7: within one read, once the decoder of a section has failed no later  *)
(* section is populated, and what was populated before the failure keeps   *)
(* the value it was decoded to: a calibration slot holds the block of the  *)
(* last descriptor of its tag that decoded.                                *)
C7_StopAfterFailure ==
    FreshRead =>
        /\ \A i, j \in 1..Len(trace) :
              (i < j /\ FailedEntry(trace[i])) => ~trace[j].set
        /\ \A i \in 1..Len(trace) :
              (/\ trace[i].sec = "calibrationSeries"
               /\ ~FailedEntry(trace[i])
               /\ trace[i].ret # NONE2
               /\ \A j \in (i + 1)..Len(trace) :
                     (/\ trace[j].sec = "calibrationSeries"
                      /\ TagOfEntry(asdFile, trace[j]) = TagOfEntry(asdFile, trace[i]))
                        => FailedEntry(trace[j]) \/ trace[j].ret = NONE2) =>
                 Slot(asdFile, TagOfEntry(asdFile, trace[i]))
                     = Slice(Buffer, trace[i].at, trace[i].ret)

(* the sections in the order read decodes them; the four calibration       *)
(* series are one place in that order                                      *)
SectionOrder ==
    <<"metadata", "spectrumData", "referenceFileHeader", "referenceData",
      "classifierData", "dependants", "calibrationHeader", "calibrationSeries",
      "auditLog", "signature">>

Rank(sec) == CHOOSE i \in 1..Len(SectionOrder) : SectionOrder[i] = sec

PopulatedAt(self, sec) ==
    IF sec = "calibrationSeries"
    THEN \E s \in SeriesSections : Populated(self, s)
    ELSE Populated(self, sec)

(* what the decoder of a section returns for the object and an offset *)
DecodeAt(self, sec, at) ==
    CASE sec = "metadata" -> parse_metadata(self, at).val
      [] sec = "spectrumData" -> parse_spectrumData(self, at).val
      [] sec = "referenceFileHeader" -> parse_referenceFileHeader(self, at).val
      [] sec = "referenceData" -> parse_referenceData(self, at).val
      [] sec = "classifierData" -> parse_classifierData(self, at).val
      [] sec = "dependants" -> parse_dependentVariables(self, at).val
      [] sec = "calibrationHeader" -> parse_calibrationHeader(self, at).val
      [] sec = "auditLog" -> parse_auditLog(self, at).val
      [] sec = "signature" -> parse_signature(self, at).val

FieldOf(self, sec) ==
    CASE sec = "metadata" -> self.metadata
      [] sec = "spectrumData" -> self.spectrumData
      [] sec = "referenceFileHeader" -> self.referenceFileHeader
      [] sec = "referenceData" -> self.referenceData
      [] sec = "classifierData" -> self.classifierData
      [] sec = "dependants" -> self.dependants
      [] sec = "calibrationHeader" -> self.calibrationHeader
      [] sec = "auditLog" -> self.auditLog
      [] sec = "signature" -> self.signature

(* the log entries of a read at which an optional section was to start at  *)
(* the very end of the buffer                                              *)
AtEnd ==
    {k \in 1..Len(trace) :
        /\ Rank(trace[k].sec) >= Rank("referenceFileHeader")
        /\ trace[k].at = Len(Buffer)}

(* C8: when the buffer ends exactly where an optional section would start, *)
(* that section and every later one are left absent (a calibration slot    *)
(* keeps what an earlier descriptor of its tag gave it), the sections      *)
(* decoded before hold what they were decoded to, and read returns True.   *)
C8_EndOfBuffer ==
    FreshRead =>
        \A k \in AtEnd :
            /\ lastOp.ret = TRUE
            /\ \A j \in k..Len(trace) : ~trace[j].set
            /\ \A i \in Rank(trace[k].sec)..Len(SectionOrder) :
                  SectionOrder[i] # "calibrationSeries"
                      => ~Populated(asdFile, SectionOrder[i])
            /\ Rank(trace[k].sec) < Rank("calibrationSeries")
                  => ~PopulatedAt(asdFile, "calibrationSeries")
            /\ \A i \in 1..(k - 1) :
                  trace[i].set =>
                      IF trace[i].sec = "calibrationSeries"
                      THEN (\A j \in (i + 1)..(k - 1) :
                               (trace[j].sec = "calibrationSeries" /\ trace[j].set)
                                   => TagOfEntry(asdFile, trace[j])
                                          # TagOfEntry(asdFile, trace[i]))
                              => Slot(asdFile, TagOfEntry(asdFile, trace[i]))
                                     = Slice(Buffer, trace[i].at, trace[i].ret)
                      ELSE FieldOf(asdFile, trace[i].sec)
                               = DecodeAt(asdFile, trace[i].sec, trace[i].at)

(* a version-8 buffer that ends where the classifier would start, with the *)
(* reference data decoded before it                                        *)
C8_Witness ==
    /\ FreshRead
    /\ asdFile.asdFileVersion = 8
    /\ \E k \in AtEnd : trace[k].sec = "classifierData"
    /\ Populated(asdFile, "referenceData")
    /\ Complete(asdFile, "referenceData")
    /\ ~Populated(asdFile, "classifierData")
    /\ lastOp.ret = TRUE

(* the last operation was a write that returned and that came right after *)
(* a read of one of the files no write touches                             *)
WriteAfterRead ==
    /\ lastOp.name = "write"
    /\ lastOp.ret = TRUE
    /\ written.after.name = "read"
    /\ written.after.path \in Paths \ OutPaths
    /\ fs[written.after.path] # NoFile

(* C9: when the file ends with FF FE FD read removes the 3 bytes before    *)
(* any decoder runs and a later write emits exactly those 3 bytes as the   *)
(* last bytes of its output; when the file that was read does not end with *)
(* them, write emits no trailing marker.  (Stated of the writes that       *)
(* return.)                                                                *)
C9_TrailingMarker ==
    /\ (FreshRead /\ EndsWithMarker(fs[lastOp.path])) =>
          /\ Buffer = SubSeq(fs[lastOp.path], 1, Len(fs[lastOp.path]) - 3)
          /\ \A k \in 1..Len(trace) :
                (trace[k].at >= 0 => trace[k].at <= Len(Buffer))
                  /\ (trace[k].ret >= 0 => trace[k].ret <= Len(Buffer))
    /\ WriteAfterRead =>
          IF EndsWithMarker(fs[written.after.path])
          THEN /\ Len(trace) > 0
               /\ trace[Len(trace)].sec = "bom"
               /\ \A k \in 1..(Len(trace) - 1) : trace[k].sec # "bom"
               /\ EndsWithMarker(fs[lastOp.path])
          ELSE \A k \in 1..Len(trace) : trace[k].sec # "bom"

(* the place of a section in the order write is to emit them *)
WriteRank(sec) ==
    CASE sec = "version" -> 0
      [] sec = "bom" -> Len(SectionOrder) + 1
      [] OTHER -> Rank(sec)

(* the entries of the write log that emitted a section; for a calibration  *)
(* slot, the entries of the descriptors of its tag                         *)
Emitted(self, sec) ==
    {k \in 1..Len(trace) :
        IF sec \in SeriesSections
        THEN /\ trace[k].sec = "calibrationSeries"
             /\ TagOfEntry(self, trace[k]) = SeriesTag(sec)
        ELSE trace[k].sec = sec}

(* C10: write emits the tag, the sections in the order read decodes them   *)
(* and the marker, each populated section exactly once.  (Stated of the    *)
(* writes that return.)                                                    *)
C10_WriteOrder ==
    (lastOp.name = "write" /\ lastOp.ret = TRUE) =>
        /\ \A i, j \in 1..Len(trace) :
              i < j =>
                  \/ WriteRank(trace[i].sec) < WriteRank(trace[j].sec)
                  \/ /\ trace[i].sec = "calibrationSeries"
                     /\ trace[j].sec = "calibrationSeries"
                     /\ trace[i].idx < trace[j].idx
        /\ \A k \in 1..Len(trace) :
              trace[k].at = (IF k = 1 THEN 0 ELSE trace[k - 1].at + trace[k - 1].len)
        /\ \A sec \in AllSections :
              Populated(asdFile, sec) => Cardinality(Emitted(asdFile, sec)) = 1
        /\ asdFile.asdFileVersion > 0 => Cardinality(Emitted(asdFile, "version")) = 1
        /\ asdFile.bom # NoneSeq => Cardinality(Emitted(asdFile, "bom")) = 1

(* the decoded fields of a section: the record without the raw bytes it    *)
(* was decoded from                                                        *)
Decoded(rec) ==
    [f \in (DOMAIN rec) \ {"byteStream", "byteStreamLength"} |-> rec[f]]

(* the Document of an object: the version and the decoded fields of every  *)
(* section                                                                 *)
Document(self) ==
    [asdFileVersion |-> self.asdFileVersion,
     metadata |-> Decoded(self.metadata),
     spectrumData |-> Decoded(self.spectrumData),
     referenceFileHeader |-> Decoded(self.referenceFileHeader),
     referenceData |-> Decoded(self.referenceData),
     classifierData |-> Decoded(self.classifierData),
     dependants |-> Decoded(self.dependants),
     calibrationHeader |-> Decoded(self.calibrationHeader),
     calibrationSeriesABS |-> self.calibrationSeriesABS,
     calibrationSeriesBSE |-> self.calibrationSeriesBSE,
     calibrationSeriesLMP |-> self.calibrationSeriesLMP,
     calibrationSeriesFO |-> self.calibrationSeriesFO,
     auditLog |-> Decoded(self.auditLog),
     signature |-> Decoded(self.signature)]

(* every section the version implies is populated and complete, and every  *)
(* descriptor of the calibration header has its block in its slot          *)
DecodedInFull(self) ==
    /\ self.asdFileVersion \in 1..8
    /\ \A t \in {1, 2, 6, 7, 8} : \A sec \in SectionsSince(t) \ SeriesSections :
          self.asdFileVersion >= t =>
              Populated(self, sec) /\ Complete(self, sec)
    /\ self.asdFileVersion >= 7 =>
          \A i \in 1..Len(self.calibrationHeader.calibrationSeries) :
              self.calibrationHeader.calibrationSeries[i].cbtype \in 0..3 =>
                  Slot(self, self.calibrationHeader.calibrationSeries[i].cbtype)
                      # NoneSeq

(* the last three operations were: a read of the file "in" on a new        *)
(* object, a write of that object, and a read of what was written on a new *)
(* object                                                                  *)
RoundTrip ==
    /\ FreshRead
    /\ lastOp.path \in OutPaths
    /\ written # None
    /\ written.after.name = "read"
    /\ written.after.onFresh
    /\ written.after.path = "in"

(* C1: for a buffer that read decodes in full, reading the bytes write     *)
(* produces from the Document gives a Document equal to it field for       *)
(* field, whatever the sections hold, repeated calibration tags and audit  *)
(* logs of several events included.                                        *)
C1_RoundTrip ==
    (RoundTrip /\ DecodedInFull(written.self)) =>
        Document(asdFile) = Document(written.self)

(* the version a section's entry of the write log needs *)
WriteThreshold(sec) ==
    CASE sec \in {"referenceFileHeader", "referenceData"} -> 2
      [] sec \in {"classifierData", "dependants"} -> 6
      [] sec \in {"calibrationHeader", "calibrationSeries"} -> 7
      [] sec \in {"auditLog", "signature"} -> 8
      [] OTHER -> 0

(* C11: write emits a section only when the version of the Document meets  *)
(* the threshold of the section: reference header and data from 2,         *)
(* classifier and dependent variables from 6, calibration header and       *)
(* series from 7, audit log and signature from 8; whatever the fields of   *)
(* the Document hold.                                                      *)
C11_WriteVersionThresholds ==
    lastOp.name = "write" =>
        \A k \in 1..Len(trace) :
            WriteThreshold(trace[k].sec) > 0 =>
                written.self.asdFileVersion >= WriteThreshold(trace[k].sec)

(* the log entries of the calibration header and of the calibration blocks *)
HeaderEntries == {k \in 1..Len(trace) : trace[k].sec = "calibrationHeader"}

SeriesEntries == {k \in 1..Len(trace) : trace[k].sec = "calibrationSeries"}

(* the tags of the descriptors, in the order of the header *)
Tags(self) ==
    [i \in 1..Len(self.calibrationHeader.calibrationSeries) |->
        self.calibrationHeader.calibrationSeries[i].cbtype]

(* the last read decoded a calibration header whose descriptors all have a *)
(* tag in 0..3, and the buffer holds one block of channels * 8 bytes per   *)
(* descriptor after the header, each block starting inside the buffer (a   *)
(* section that would start at the very end of the buffer is the case of   *)
(* C8)                                                                     *)
CalibrationBlocksPresent ==
    /\ FreshRead
    /\ asdFile.asdFileVersion >= 7
    /\ Populated(asdFile, "metadata")
    /\ Populated(asdFile, "calibrationHeader")
    /\ \A i \in 1..Len(Tags(asdFile)) : Tags(asdFile)[i] \in 0..3
    /\ \E k \in HeaderEntries :
          /\ trace[k].set
          /\ trace[k].ret >= 0
          /\ trace[k].ret + Len(Tags(asdFile)) * asdFile.metadata.channels * 8
                 <= Len(Buffer)
          /\ trace[k].ret + (Len(Tags(asdFile)) - 1) * asdFile.metadata.channels * 8
                 < Len(Buffer)

(* the place in the buffer of the block of descriptor i *)
BlockStart(i) ==
    LET k == CHOOSE h \in HeaderEntries : TRUE
    IN  trace[k].ret + (i - 1) * asdFile.metadata.channels * 8

Block(i) == Slice(Buffer, BlockStart(i), BlockStart(i + 1))

WriteOfCalibration ==
    /\ lastOp.name = "write"
    /\ asdFile.asdFileVersion >= 7
    /\ Populated(asdFile, "calibrationHeader")
    /\ HeaderEntries # {}
    /\ \A i \in 1..Len(Tags(asdFile)) :
          /\ Tags(asdFile)[i] \in 0..3
          /\ Slot(asdFile, Tags(asdFile)[i]) # NoneSeq

(* the bytes of the output an entry of the write log stands for *)
EmittedBytes(e) == Slice(fs[lastOp.path], e.at, e.at + e.len)

(* C13: write emits, directly after the calibration header, exactly one    *)
(* spectrum block per descriptor of the header, in the order of the        *)
(* descriptors (not in the fixed order ABS, BSE, LMP, FO), each block      *)
(* being the series held in the slot of the descriptor's tag.              *)
C13_WriteCalibrationBlocks ==
    WriteOfCalibration =>
        LET h == CHOOSE k \in HeaderEntries : TRUE
            n == Len(Tags(asdFile))
        IN  /\ Cardinality(SeriesEntries) = n
            /\ SeriesEntries = (h + 1)..(h + n)
            /\ \A i \in 1..n :
                  /\ trace[h + i].idx = i
                  /\ trace[h + i].at = trace[h + i - 1].at + trace[h + i - 1].len
                  /\ EmittedBytes(trace[h + i])
                         = wrap_spectra(asdFile, Slot(asdFile, Tags(asdFile)[i])).bytes

(* a write of the tags 3, 2, 1, 0: four blocks, the first the fiber optic  *)
(* series and the last the absolute series, which differ                   *)
C13_Witness ==
    /\ WriteOfCalibration
    /\ lastOp.ret = TRUE
    /\ Tags(asdFile) = <<3, 2, 1, 0>>
    /\ Cardinality(SeriesEntries) = 4
    /\ \E h \in HeaderEntries :
          /\ EmittedBytes(trace[h + 1])
                 = wrap_spectra(asdFile, asdFile.calibrationSeriesFO).bytes
          /\ EmittedBytes(trace[h + 4])
                 = wrap_spectra(asdFile, asdFile.calibrationSeriesABS).bytes
          /\ EmittedBytes(trace[h + 1]) # EmittedBytes(trace[h + 4])

(* the sections that record the bytes they were decoded from *)
RecordedSections ==
    <<"metadata", "spectrumData", "referenceFileHeader", "referenceData",
      "classifierData", "dependants", "calibrationHeader", "auditLog", "signature">>

(* the sum of byteStreamLength over the populated sections, from the i-th  *)
(* on                                                                      *)
RECURSIVE RecordedLength(_, _)
RecordedLength(self, i) ==
    IF i > Len(RecordedSections) THEN 0
    ELSE (IF Populated(self, RecordedSections[i])
          THEN FieldOf(self, RecordedSections[i]).byteStreamLength
          ELSE 0) + RecordedLength(self, i + 1)

(* the last operation was a write that returned, of an object that a read  *)
(* on a new object had decoded in full right before                        *)
WriteOfDecoded ==
    /\ lastOp.name = "write"
    /\ lastOp.ret = TRUE
    /\ written.after.name = "read"
    /\ written.after.onFresh
    /\ DecodedInFull(asdFile)

(* C14: for a Document produced by a read in which every section decoded,  *)
(* the number of bytes write emits is the sum of byteStreamLength over the *)
(* sections of the Document, plus 3 when the trailing marker is present.   *)
C14_RecordedLengths ==
    WriteOfDecoded =>
        Len(fs[lastOp.path])
            = RecordedLength(asdFile, 1) + (IF asdFile.bom # NoneSeq THEN 3 ELSE 0)

(* the sections a Document of a version is to hold, the calibration blocks *)
(* apart                                                                   *)
RequiredSections(version) ==
    UNION {SectionsSince(t) \ SeriesSections : t \in {u \in {1, 2, 6, 7, 8} : u <= version}}

(* C15: write of a Document of version 1 or more whose metadata or         *)
(* spectrum is absent, or in which a section its version requires cannot   *)
(* be encoded, fails; write never returns True after emitting an output    *)
(* that lacks such a section.                                              *)
C15_WriteFailsOnMissingSection ==
    (lastOp.name = "write" /\ asdFile.asdFileVersion >= 1) =>
        /\ (~Populated(asdFile, "metadata") \/ ~Populated(asdFile, "spectrumData"))
              => lastOp.ret = FALSE
        /\ lastOp.ret = TRUE =>
              \A sec \in RequiredSections(asdFile.asdFileVersion) :
                  \E k \in 1..Len(trace) : trace[k].sec = sec

(* C16: write touches the target path only after the complete output has  *)
(* been built in memory: the target file never holds a strict prefix of    *)
(* the output, and when the encoding of a section fails the file has been  *)
(* neither removed, created nor truncated, so a write that fails leaves    *)
(* every file as it was.                                                   *)
C16_WriteAllOrNothing ==
    [][(lastOp'.name = "write" /\ lastOp'.raised) => fs' = fs]_vars

(* C17: no decoder succeeds after consuming bytes beyond the end of the    *)
(* buffer: whenever read populates a section, the offset its decoder       *)
(* returns is at most the length of the buffer, so a fixed skip (the       *)
(* 10-byte dimension header, the 2- or 4-byte zero marker) or a field read *)
(* that goes beyond the buffer fails the section.                          *)
C17_NoReadBeyondBuffer ==
    FreshRead =>
        \A k \in 1..Len(trace) :
            (trace[k].set \/ ~FailedEntry(trace[k])) =>
                (trace[k].ret \notin {NONE, NONE2} => trace[k].ret <= Len(Buffer))

(***************************************************************************)
(* The primitive codecs on their own.  The object holds the buffer the     *)
(* decoders work on (self.__asdFileStream); lastOp names the call that was *)
(* made with its string argument and the offset it was given, and trace    *)
(* holds what the decoder returned.  The strings are Python str, as the    *)
(* sequence of their code points: a, e-acute, the euro sign and U+1F600    *)
(* take 1, 2, 3 and 4 bytes of UTF-8.                                      *)
(***************************************************************************)
MaxStringLen == 3

CodePoints == {97, 233, 8364, 128512}

Strings == UNION {[1..n -> CodePoints] : n \in 0..MaxStringLen}

(* what the buffer holds before and after the bytes under test *)
Margins == {<<>>, <<7>>}

FlagBytes == {0, 1, 255}

(* the 0, 1 or 2 bytes where a Bool is to be *)
Flags == UNION {[1..n -> FlagBytes] : n \in 0..2}

(* what follows the Bool in a reference header: two 'q' and a bstr *)
HeaderTails == {<<>>, Zeros(16) \o Bstr(<<104, 105>>)}

CodecInit ==
    /\ longSize \in {4, 8}
    /\ fs = [p \in Paths |-> NoFile]
    /\ asdFile = NewASDFile
    /\ fresh = TRUE
    /\ lastOp = [name |-> "init", string |-> NoneSeq, offset |-> 0]
    /\ trace = <<>>
    /\ written = None
    /\ ops = 0

(* the buffer becomes what __wrap_bstr(s) returns, between two margins *)
WrapBstr(s, before, after) ==
    LET Done(w) ==
            /\ w.ok
            /\ asdFile' = [asdFile EXCEPT !.asdFileStream = before \o w.bytes \o after]
    IN  /\ lastOp.name = "init"
        /\ Done(wrap_bstr(s))
        /\ lastOp' = [name |-> "wrap_bstr", string |-> s, offset |-> Len(before)]
        /\ ops' = ops + 1
        /\ UNCHANGED <<fs, longSize, fresh, trace, written>>

(* __parse_bstr at the offset where the encoder's output starts *)
ParseBstr ==
    /\ lastOp.name = "wrap_bstr"
    /\ trace' = <<parse_bstr(asdFile.asdFileStream, lastOp.offset)>>
    /\ lastOp' = [lastOp EXCEPT !.name = "parse_bstr"]
    /\ ops' = ops + 1
    /\ UNCHANGED <<asdFile, fs, longSize, fresh, written>>

(* a buffer with the bytes flag where a Bool is to be decoded *)
LoadFlag(flag, before, tail) ==
    /\ lastOp.name = "init"
    /\ asdFile' = [asdFile EXCEPT !.asdFileStream = before \o flag \o tail]
    /\ lastOp' = [name |-> "load", string |-> NoneSeq, offset |-> Len(before)]
    /\ ops' = ops + 1
    /\ UNCHANGED <<fs, longSize, fresh, trace, written>>

ParseBool ==
    /\ lastOp.name = "load"
    /\ trace' = <<parse_Bool(asdFile.asdFileStream, lastOp.offset)>>
    /\ lastOp' = [lastOp EXCEPT !.name = "parse_Bool"]
    /\ ops' = ops + 1
    /\ UNCHANGED <<asdFile, fs, longSize, fresh, written>>

(* offset = self.__parse_referenceFileHeader(offset), the section whose    *)
(* first field is a Bool                                                   *)
ParseReferenceFileHeader ==
    LET Done(st) ==
            /\ asdFile' = st.self
            /\ trace' = st.log
    IN  /\ lastOp.name = "load"
        /\ Done(Step([self |-> asdFile, offset |-> lastOp.offset, log |-> <<>>,
                      exc |-> FALSE],
                     "referenceFileHeader",
                     parse_referenceFileHeader(asdFile, lastOp.offset)))
        /\ lastOp' = [lastOp EXCEPT !.name = "parse_referenceFileHeader"]
        /\ ops' = ops + 1
        /\ UNCHANGED <<fs, longSize, fresh, written>>

(* The audit blobs: up to MaxFragments pieces in a row, each a well-formed  *)
(* fragment ("A", "B": B has two-byte characters in its texts), a fragment *)
(* without its Audit_Notes child ("M"), or bytes that belong to no         *)
(* fragment ("G": a length prefix, a byte that is not UTF-8, a stray tag). *)
MaxFragments == 3

PieceKinds == {"A", "B", "M", "G"}

EventA == EventOf(1)

EventB == [texts |-> [j \in 1..8 |-> IF j = 8 THEN NoneSeq ELSE <<233, 48 + j>>]]

PieceBytes(kind) ==
    CASE kind = "A" -> wrap_auditLogEvent(EventA).bytes
      [] kind = "B" -> wrap_auditLogEvent(EventB).bytes
      [] kind = "M" ->
             utf8_encode(OpenTag(Audit_Event)
                           \o Concat([k \in 1..7 |-> WrapElement(AuditTags[k], <<65, 48 + k>>)],
                                     1, <<>>)
                           \o CloseTag(Audit_Event))
      [] kind = "G" -> <<20, 1, 255, 60, 120, 62, 10>>

Blobs == UNION {[1..n -> PieceKinds] : n \in 1..MaxFragments}

(* a buffer with the blob at an offset *)
LoadAudit(pieces, before) ==
    /\ lastOp.name = "init"
    /\ asdFile' = [asdFile EXCEPT !.asdFileStream =
                       before \o Concat([k \in 1..Len(pieces) |-> PieceBytes(pieces[k])],
                                        1, <<>>)]
    /\ lastOp' = [name |-> "load_audit", string |-> pieces, offset |-> Len(before)]
    /\ ops' = ops + 1
    /\ UNCHANGED <<fs, longSize, fresh, trace, written>>

ParseAuditEvents ==
    /\ lastOp.name = "load_audit"
    /\ trace' = <<parse_auditEvents(asdFile.asdFileStream, lastOp.offset)>>
    /\ lastOp' = [lastOp EXCEPT !.name = "parse_auditEvents"]
    /\ ops' = ops + 1
    /\ UNCHANGED <<asdFile, fs, longSize, fresh, written>>

(* The dependent-variable records: up to MaxLabels labels, each with a     *)
(* 4-byte float value.                                                     *)
MaxLabels == 2

Labels == {<<>>, <<121>>, <<233, 97>>}

DependantRecords ==
    UNION {{[saveDependentVariables |-> b, dependentVariableCount |-> n,
             dependentVariableLabels |-> l,
             dependentVariableValue |-> Concat(v, 1, <<>>)] :
               b \in BOOLEAN, l \in [1..n -> Labels],
               v \in [1..n -> {F32_1, F32_350}]} : n \in 0..MaxLabels}

(* the record is on the object and the buffer becomes what                 *)
(* __wrap_dependentVariables returns for it, between two margins           *)
WrapDependentVariables(record, before, after) ==
    LET Done(self, w) ==
            /\ asdFile' = [self EXCEPT !.asdFileStream =
                              before \o (IF w.ok THEN w.bytes ELSE <<>>) \o after]
            /\ lastOp' = [name |-> "wrap_dependentVariables",
                          string |-> IF w.ok THEN w.bytes ELSE NoneSeq,
                          offset |-> Len(before), record |-> record]
        Wrapped(self) == Done(self, wrap_dependentVariables(self))
    IN  /\ lastOp.name = "init"
        /\ Wrapped([asdFile EXCEPT !.dependants = record])
        /\ ops' = ops + 1
        /\ UNCHANGED <<fs, longSize, fresh, trace, written>>

(* offset = self.__parse_dependentVariables(offset) where the encoder's    *)
(* output starts                                                           *)
ParseDependentVariables ==
    LET Done(st) ==
            /\ asdFile' = st.self
            /\ trace' = st.log
    IN  /\ lastOp.name = "wrap_dependentVariables"
        /\ Done(Step([self |-> asdFile, offset |-> lastOp.offset, log |-> <<>>,
                      exc |-> FALSE],
                     "dependants",
                     parse_dependentVariables(asdFile, lastOp.offset)))
        /\ lastOp' = [lastOp EXCEPT !.name = "parse_dependentVariables"]
        /\ ops' = ops + 1
        /\ UNCHANGED <<fs, longSize, fresh, written>>

CodecNext ==
    \/ \E s \in Strings : \E before \in Margins : \E after \in Margins :
           WrapBstr(s, before, after)
    \/ ParseBstr
    \/ \E flag \in Flags : \E before \in Margins : \E tail \in HeaderTails :
           LoadFlag(flag, before, tail)
    \/ ParseBool
    \/ ParseReferenceFileHeader
    \/ \E pieces \in Blobs : \E before \in Margins : LoadAudit(pieces, before)
    \/ ParseAuditEvents
    \/ \E record \in DependantRecords : \E before \in Margins : \E after \in Margins :
           WrapDependentVariables(record, before, after)
    \/ ParseDependentVariables

CodecSpec == CodecInit /\ [][CodecNext]_vars

(* C18: the bstr codec is an inverse pair: for every string whose UTF-8    *)
(* encoding fits the signed 16-bit length, the empty string and strings of *)
(* multi-byte characters included, decoding what the encoder returns gives *)
(* the string back and advances the offset by 2 plus the length of the     *)
(* UTF-8 encoding.                                                         *)
C18_BstrInverse ==
    lastOp.name = "parse_bstr" =>
        trace[1] = [v |-> lastOp.string,
                    off |-> lastOp.offset + 2 + Len(utf8_encode(lastOp.string)),
                    exc |-> FALSE]

(* the euro sign and an "a" are encoded in 2 + 4 bytes and decoded back *)
C18_Witness ==
    /\ lastOp.name = "parse_bstr"
    /\ lastOp.string = <<8364, 97>>
    /\ lastOp.offset = 1
    /\ Slice(asdFile.asdFileStream, 1, 7) = <<4, 0, 226, 130, 172, 97>>
    /\ trace[1].v = <<8364, 97>>
    /\ trace[1].off = 7

(* the 2 bytes (or fewer) at the offset the Bool decoder was given *)
FlagAt == Slice(asdFile.asdFileStream, lastOp.offset, lastOp.offset + 2)

(* C19: the Bool decoder succeeds only on FF FF (true) and 00 00 (false),  *)
(* advancing the offset by 2; every other pattern, and a buffer with fewer *)
(* than 2 bytes left, fails the decode and makes the enclosing section     *)
(* fail.                                                                   *)
C19_BoolDecoder ==
    /\ lastOp.name = "parse_Bool" =>
          /\ FlagAt = <<255, 255>> =>
                trace[1] = [v |-> TRUE, off |-> lastOp.offset + 2, exc |-> FALSE]
          /\ FlagAt = <<0, 0>> =>
                trace[1] = [v |-> FALSE, off |-> lastOp.offset + 2, exc |-> FALSE]
          /\ FlagAt \notin {<<255, 255>>, <<0, 0>>} => trace[1].off = NONE
    /\ (lastOp.name = "parse_referenceFileHeader"
          /\ FlagAt \notin {<<255, 255>>, <<0, 0>>}) =>
          /\ FailedEntry(trace[1]) \/ trace[1].ret = NONE2
          /\ ~trace[1].set
          /\ asdFile.referenceFileHeader = None

(* FF 01 in front of an otherwise well-formed reference header: the Bool   *)
(* is refused and the header is not populated                              *)
C19_Witness ==
    /\ lastOp.name = "parse_referenceFileHeader"
    /\ FlagAt = <<255, 1>>
    /\ Len(asdFile.asdFileStream) = lastOp.offset + 22
    /\ trace[1].ret = NONE
    /\ asdFile.referenceFileHeader = None

IsFragment(kind) == kind # "G"

(* the pieces of the blob of the last call that are fragments, in the      *)
(* order of the blob                                                       *)
Fragments == SelectSeq(lastOp.string, IsFragment)

(* C20: the event list of an audit blob holds one AuditEvent per           *)
(* well-formed Audit_Event fragment, in the order of the blob, and what is *)
(* outside the fragments adds no entry; a fragment that lacks one of the   *)
(* eight child elements fails that event alone (its place in the list      *)
(* holds None where the AuditEvent would be), and the fragments before and *)
(* after it are returned as AuditEvents.                                   *)
C20_AuditEvents ==
    lastOp.name = "parse_auditEvents" =>
        /\ trace[1].ok
        /\ Len(trace[1].events) = Len(Fragments)
        /\ \A i \in 1..Len(Fragments) :
              trace[1].events[i] =
                  (CASE Fragments[i] = "A" -> EventA
                     [] Fragments[i] = "B" -> EventB
                     [] Fragments[i] = "M" -> None)

(* a fragment without its Audit_Notes between two well-formed ones, and    *)
(* bytes of no fragment after them                                         *)
C20_Witness ==
    /\ lastOp.name = "parse_auditEvents"
    /\ lastOp.string = <<"A", "M", "B">>
    /\ trace[1].events = <<EventA, None, EventB>>

(* two well-formed fragments followed by bytes of no fragment: 2 events *)
C20_WitnessGarbage ==
    /\ lastOp.name = "parse_auditEvents"
    /\ lastOp.string = <<"A", "B", "G">>
    /\ trace[1].events = <<EventA, EventB>>

(***************************************************************************)
(* Derived values: __normalise_spectrum and the radiance property.         *)
(*                                                                         *)
(* A number of a series is an exact fraction <<numerator, denominator>>    *)
(* with a positive denominator, so that a division is never the identity.  *)
(***************************************************************************)
RECURSIVE GCD(_, _)
GCD(a, b) == IF b = 0 THEN a ELSE GCD(b, a % b)

Abs(a) == IF a < 0 THEN -a ELSE a

Rat(n, d) ==
    LET g == GCD(Abs(n), Abs(d))
        s == IF d < 0 THEN -1 ELSE 1
    IN  <<(s * n) \div g, (s * d) \div g>>

(* x * num / den, the order of the two numpy operations of lines 1059-1061 *)
RatScale(x, num, den) == Rat(x[1] * num, x[2] * den)

(* int(x) of Python for a float x: the fraction is cut off towards zero *)
int_of(x) == IF x[1] >= 0 THEN x[1] \div x[2] ELSE -((-x[1]) \div x[2])

(* the bound k of a slice of a sequence of n elements: a negative bound    *)
(* counts from the end, and both ends are clipped to 0..n                  *)
SliceBound(k, n) == IF k < 0 THEN Max(k + n, 0) ELSE Min(k, n)

(* a[lo:hi] = a[lo:hi] * num / den, with lo and hi already clipped *)
ScaleSlice(a, lo, hi, num, den) ==
    [i \in 1..Len(a) |->
        IF lo < i /\ i <= hi THEN RatScale(a[i], num, den) ELSE a[i]]

(* the three slice assignments of lines 1058-1061, each reading the array  *)
(* the one before it has left                                              *)
normalise_slices(metadata, array) ==
    LET n  == Len(array)
        splice1_index == int_of(metadata.splice1_wavelength)
        splice2_index == int_of(metadata.splice2_wavelength)
        a1 == ScaleSlice(array, 0, SliceBound(splice1_index, n),
                         1, metadata.intergrationTime_ms)
        a2 == ScaleSlice(a1, SliceBound(splice1_index, n),
                         SliceBound(splice2_index, n),
                         metadata.swir1Gain, 2048)
    IN  ScaleSlice(a2, SliceBound(splice2_index, n), n,
                   metadata.swir2Gain, 2048)

(* the function without its first statement: the slices are assigned in    *)
(* the caller's array                                                      *)
normalise_spectrum_inplace(metadata, sepctra) ==
    LET out == normalise_slices(metadata, sepctra)
    IN  [sepctra |-> out, ret |-> out]

(* __normalise_spectrum: sepctra is the caller's array as the call leaves  *)
(* it, ret the array returned.  The slices are assigned in a copy.         *)
normalise_spectrum(metadata, sepctra) ==
    [sepctra |-> sepctra, ret |-> normalise_slices(metadata, sepctra)]

(* what the caller of a property gets: a returned value, or an exception   *)
Returned(value) == [raised |-> FALSE, value |-> value]
Propagated == [raised |-> TRUE, value |-> None]

(* the assignment of line 1043 or 1045.  Its expression multiplies an      *)
(* array by self.referenceData and self.spectrumData, each of them None or *)
(* the namedtuple (spectra, byteStream, byteStreamLength) that read        *)
(* assigns, never an array: numpy raises TypeError for None and ValueError *)
(* or TypeError for the tuple of an array, a bytes object and an int.  The *)
(* exception is caught at line 1048 and None is returned (line 1050).      *)
radiance_formula(self) == Returned(None)

(* the radiance property without its version test *)
radiance_any_version(self) ==
    IF self.calibrationHeader = None THEN Returned(None)
    ELSE IF self.calibrationHeader.calibrationNum >= 3 THEN
        IF /\ self.calibrationSeriesABS # NoneSeq
           /\ self.calibrationSeriesLMP # NoneSeq
           /\ self.calibrationSeriesLMP # NoneSeq
        THEN radiance_formula(self)
        ELSE IF /\ self.calibrationSeriesBSE # NoneSeq
                /\ self.calibrationSeriesLMP # NoneSeq
                /\ self.calibrationSeriesFO # NoneSeq
        THEN radiance_formula(self)
        ELSE Propagated
    ELSE Propagated

(* the radiance property.  The local variable radiance is assigned in the  *)
(* two formula branches only, so "return radiance" (line 1052) raises      *)
(* UnboundLocalError, outside the try block, on every other path; an       *)
(* absent calibration header raises AttributeError inside the try block.   *)
radiance(self) ==
    IF self.asdFileVersion >= 7 THEN radiance_any_version(self)
    ELSE Propagated

(***************************************************************************)
(* A second state machine for the derived values: a Document is placed on  *)
(* the object, then a derivation is called on it.                          *)
(***************************************************************************)
MaxSeries == 10

SpliceValues ==
    {<<-1, 1>>, <<-1, 2>>, <<0, 1>>, <<3, 1>>, <<7, 2>>, <<7, 1>>,
     <<MaxSeries + 2, 1>>}

Series ==
    {Fill(n, <<2, 1>>) : n \in 0..MaxSeries}
        \cup {[i \in 1..n |-> <<i, 1>>] : n \in {3, MaxSeries}}

DerivedMetadata ==
    [splice1_wavelength : SpliceValues, splice2_wavelength : SpliceValues,
     intergrationTime_ms : {1, 2, 4}, swir1Gain : {2048, 4096},
     swir2Gain : {1024, 2048}]

PlainMetadata ==
    [splice1_wavelength |-> <<3, 1>>, splice2_wavelength |-> <<7, 1>>,
     intergrationTime_ms |-> 2, swir1Gain |-> 4096, swir2Gain |-> 2048]

Slots == {NoneSeq, <<1, 2>>}

SpectrumRecords == {None, [spectra |-> <<1, 2>>]}

Calibrated ==
    {[NewASDFile EXCEPT !.asdFileVersion = v, !.metadata = PlainMetadata,
                        !.calibrationHeader = h,
                        !.spectrumData = d, !.referenceData = d,
                        !.calibrationSeriesABS = a,
                        !.calibrationSeriesBSE = b,
                        !.calibrationSeriesLMP = l,
                        !.calibrationSeriesFO = f] :
        v \in {1, 6, 7, 8},
        h \in {None} \cup {[calibrationNum |-> k] : k \in 2..4},
        d \in SpectrumRecords,
        a \in Slots, b \in Slots, l \in Slots, f \in Slots}

DerivInit ==
    /\ longSize \in {4, 8}
    /\ fs = [p \in Paths |-> NoFile]
    /\ asdFile = NewASDFile
    /\ fresh = TRUE
    /\ lastOp = [name |-> "init", arg |-> <<>>, sepctra |-> <<>>]
    /\ trace = <<>>
    /\ written = None
    /\ ops = 0

(* the fields a read has left on the object *)
Populate(self) ==
    /\ asdFile' = self
    /\ lastOp' = [name |-> "read", arg |-> <<>>, sepctra |-> <<>>]
    /\ trace' = <<>>
    /\ fresh' = FALSE
    /\ UNCHANGED <<fs, longSize, written, ops>>

(* a call of __normalise_spectrum: lastOp.arg is the array passed and      *)
(* lastOp.sepctra the same array as the call leaves it.  Without metadata  *)
(* the attribute access of line 1056 raises AttributeError.                *)
Normalise(sepctra) ==
    /\ IF asdFile.metadata = None
       THEN /\ trace' = <<Propagated>>
            /\ lastOp' = [name |-> "normalise_spectrum", arg |-> sepctra,
                          sepctra |-> sepctra]
       ELSE LET r == normalise_spectrum(asdFile.metadata, sepctra)
            IN  /\ trace' = <<Returned(r.ret)>>
                /\ lastOp' = [name |-> "normalise_spectrum", arg |-> sepctra,
                              sepctra |-> r.sepctra]
    /\ UNCHANGED <<asdFile, fs, longSize, fresh, written, ops>>

Radiance ==
    /\ trace' = <<radiance(asdFile)>>
    /\ lastOp' = [name |-> "radiance", arg |-> <<>>, sepctra |-> <<>>]
    /\ UNCHANGED <<asdFile, fs, longSize, fresh, written, ops>>

DerivNext ==
    \/ \E m \in DerivedMetadata :
           Populate([NewASDFile EXCEPT !.asdFileVersion = 1, !.metadata = m])
    \/ \E self \in Calibrated : Populate(self)
    \/ \E sepctra \in Series : Normalise(sepctra)
    \/ Radiance

DerivSpec == DerivInit /\ [][DerivNext]_vars

(***************************************************************************)
(* Properties of the derived values (DerivSpec).                           *)
(***************************************************************************)
Normalised ==
    /\ lastOp.name = "normalise_spectrum"
    /\ ~trace[1].raised

splice1 == int_of(asdFile.metadata.splice1_wavelength)
splice2 == int_of(asdFile.metadata.splice2_wavelength)

(* y = x * num / den, for fractions x and y *)
IsScaled(y, x, num, den) ==
    /\ y[2] > 0
    /\ y[1] * x[2] * den = x[1] * num * y[2]

HasSeries(slot) == slot # NoneSeq

(* the case in which the claim lets radiance yield a value *)
RadianceAvailable(self) ==
    /\ self.asdFileVersion >= 7
    /\ self.calibrationHeader # None
    /\ self.calibrationHeader.calibrationNum >= 3
    /\ \/ /\ HasSeries(self.calibrationSeriesABS)
          /\ HasSeries(self.calibrationSeriesBSE)
          /\ HasSeries(self.calibrationSeriesLMP)
       \/ /\ HasSeries(self.calibrationSeriesBSE)
          /\ HasSeries(self.calibrationSeriesLMP)
          /\ HasSeries(self.calibrationSeriesFO)

(* C22: radiance returns a value only for a Document of version 7 or more  *)
(* whose calibration header lists at least 3 descriptors and whose         *)
(* Absolute, Base and Lamp series, or Base, Lamp and Fiber series, are all *)
(* populated; for every other Document the call returns to its caller,     *)
(* with the failure (no value) as its result.                              *)
C22_RadianceAvailability ==
    lastOp.name = "radiance" =>
        /\ (~trace[1].raised /\ trace[1].value # None)
               => RadianceAvailable(asdFile)
        /\ ~RadianceAvailable(asdFile)
               => (~trace[1].raised /\ trace[1].value = None)

(* the audit-log count of the buffer at the offset of trace entry k is 0 *)
AuditCountZero(k) ==
    /\ trace[k].sec = "auditLog"
    /\ Fits(Buffer, trace[k].at, longSize)
    /\ SLong(Buffer, trace[k].at, longSize) = 0

(* C23: when read on a new object reaches the audit log of a version 8     *)
(* file and the count field there is 0, the audit log is populated with    *)
(* count 0 and an empty event list, the decoder consumes the count field   *)
(* only, and the signature is decoded at the byte after the count field.   *)
C23_EmptyAuditLog ==
    FreshRead =>
        \A k \in 1..Len(trace) :
            AuditCountZero(k) =>
                /\ trace[k].set
                /\ asdFile.auditLog.auditCount = 0
                /\ asdFile.auditLog.auditEvents = <<>>
                /\ trace[k].ret = trace[k].at + longSize
                /\ k < Len(trace)
                /\ trace[k + 1].sec = "signature"
                /\ trace[k + 1].at = trace[k].at + longSize

(* a write that returned, of a Document whose audit log lists its events *)
WriteOfAuditLog ==
    /\ lastOp.name = "write"
    /\ ~lastOp.raised
    /\ asdFile.asdFileVersion >= 8
    /\ asdFile.auditLog # None
    /\ asdFile.auditLog.auditEvents # <<>>
    /\ asdFile.auditLog.auditCount = Len(asdFile.auditLog.auditEvents)
    /\ \A i \in 1..Len(asdFile.auditLog.auditEvents) :
          asdFile.auditLog.auditEvents[i] # None

(* the XML fragments of the events, in list order *)
EventFragments(auditEvents) ==
    Concat([i \in 1..Len(auditEvents) |-> wrap_auditLogEvent(auditEvents[i]).bytes],
           1, <<>>)

(* C24: a write of an audit log of N >= 1 events emits, for the audit log, *)
(* the count N, one dimension header (uint16 1, uint32 N, uint32 0), the   *)
(* 16-bit size of the fragments and then the XML fragments of all N        *)
(* events in list order, none left out; each fragment is an Audit_Event    *)
(* element with the eight children in their fixed order.                   *)
C24_WriteAuditEvents ==
    WriteOfAuditLog =>
        \E k \in 1..Len(trace) :
            /\ trace[k].sec = "auditLog"
            /\ LET events == asdFile.auditLog.auditEvents
                   xml    == EventFragments(events)
               IN  EmittedBytes(trace[k])
                       = PackSLong(Len(events), longSize)
                           \o DimensionHeader(Len(events))
                           \o PackS16(Len(xml)) \o xml

(* the trace entries of the sections whose decoder completed and left a    *)
(* record with a byteStream on the object                                  *)
RecordEntries ==
    {k \in 1..Len(trace) :
        /\ trace[k].sec \in {RecordedSections[i] : i \in 1..Len(RecordedSections)}
        /\ trace[k].set
        /\ ~FailedEntry(trace[k])
        /\ trace[k].ret # NONE2}

(* C25: after a read on a new object, every record a decoder has populated *)
(* holds in byteStream exactly the bytes of the buffer from the offset the *)
(* decoder started at to the offset it returned, and in byteStreamLength   *)
(* their number: the metadata record the 481 bytes at offsets 3..483, a    *)
(* spectrum or reference record the channels * 8 bytes of its values.      *)
C25_ByteStreamIsSlice ==
    FreshRead =>
        \A k \in RecordEntries :
            LET record == FieldOf(asdFile, trace[k].sec)
            IN  /\ record.byteStream = Slice(Buffer, trace[k].at, trace[k].ret)
                /\ record.byteStreamLength = trace[k].ret - trace[k].at

(* C26: after a read on a new object, the count field of a populated       *)
(* record equals the length of its list: constituantCount the number of    *)
(* constituantItems (unsigned 16-bit count) and calibrationNum the number  *)
(* of descriptors in calibrationSeries (signed 8-bit count), whatever      *)
(* value the count byte(s) of the file hold.                               *)
C26_CountsMatchLists ==
    FreshRead =>
        /\ asdFile.classifierData # None =>
              asdFile.classifierData.constituantCount
                  = Len(asdFile.classifierData.constituantItems)
        /\ asdFile.calibrationHeader # None =>
              asdFile.calibrationHeader.calibrationNum
                  = Len(asdFile.calibrationHeader.calibrationSeries)

(* the bytes the claim gives for a dependent-variable record *)
DependantBytes(r) ==
    LET n == r.dependentVariableCount
    IN  wrap_Bool(r.saveDependentVariables) \o PackS16(n)
          \o (IF n = 0 THEN <<0, 0, 0, 0>>
              ELSE DimensionHeader(n)
                     \o Concat([i \in 1..n |-> Bstr(utf8_encode(r.dependentVariableLabels[i]))],
                               1, <<>>)
                     \o DimensionHeader(n)
                     \o r.dependentVariableValue)

(* C27: the encoder of the dependent variables is the inverse of the       *)
(* decoder.  For count 0 it completes without error and emits 8 bytes, the *)
(* 2-byte Bool, the 2-byte count 0 and 00 00 00 00; for a count above 0 it *)
(* emits the Bool, the count, a dimension header, count bstr labels, the   *)
(* same dimension header again and count 4-byte floats.  The decoder, at   *)
(* the offset where these bytes start, reads back the record that was      *)
(* encoded and advances by exactly the number of bytes emitted.            *)
C27_DependentsInverse ==
    lastOp.name = "parse_dependentVariables" =>
        LET r == lastOp.record
            d == asdFile.dependants
        IN  /\ lastOp.string = DependantBytes(r)
            /\ r.dependentVariableCount = 0 => Len(lastOp.string) = 8
            /\ trace[1].set
            /\ trace[1].ret = lastOp.offset + Len(lastOp.string)
            /\ d.saveDependentVariables = r.saveDependentVariables
            /\ d.dependentVariableCount = r.dependentVariableCount
            /\ d.dependentVariableLabels = r.dependentVariableLabels
            /\ d.dependentVariableValue = r.dependentVariableValue
            /\ d.byteStream = lastOp.string

(* count 0, and two labels of which one is empty and one has a two-byte    *)
(* character, both decoded at an offset of 1                               *)
C27_Witness ==
    /\ lastOp.name = "parse_dependentVariables"
    /\ lastOp.offset = 1
    /\ lastOp.record.dependentVariableCount = 2
    /\ asdFile.dependants.dependentVariableLabels = <<<<>>, <<233, 97>>>>
    /\ trace[1].ret = 1 + 4 + 10 + 2 + 5 + 10 + 8

C27_WitnessEmpty ==
    /\ lastOp.name = "parse_dependentVariables"
    /\ lastOp.record.dependentVariableCount = 0
    /\ lastOp.record.saveDependentVariables
    /\ lastOp.string = <<255, 255, 0, 0, 0, 0, 0, 0>>
    /\ trace[1].ret = lastOp.offset + 8

(* the n bytes of a fixed-width string field, encoded again from the       *)
(* value the decoder has left for it                                       *)
EncodedField(value, n) == Slice(ljust(value, n), 0, n)

(* C28: a zero-padded string field of fixed width is encoded back to the   *)
(* bytes it was decoded from, the decoder removing the trailing zero bytes *)
(* only: after a read on a new object, the 157-byte comments field at      *)
(* offset 3 and the 20-byte name of every calibration descriptor equal the *)
(* decoded value padded with zero bytes to the width of the field.         *)
C28_PaddedFields ==
    FreshRead =>
        /\ asdFile.metadata # None =>
              EncodedField(asdFile.metadata.comments, 157) = Slice(Buffer, 3, 160)
        /\ \A h \in HeaderEntries :
              trace[h].set =>
                  \A i \in 1..Len(asdFile.calibrationHeader.calibrationSeries) :
                      EncodedField(asdFile.calibrationHeader.calibrationSeries[i].name, 20)
                          = Slice(Buffer,
                                  trace[h].at + 2 + CalibrationSeriesLength * (i - 1),
                                  trace[h].at + 22 + CalibrationSeriesLength * (i - 1))

(* the version, the section fields and the marker flag of an object *)
DocumentOf(self) ==
    [asdFileVersion |-> self.asdFileVersion,
     sections |-> [i \in 1..Len(RecordedSections) |-> FieldOf(self, RecordedSections[i])],
     series |-> <<self.calibrationSeriesABS, self.calibrationSeriesBSE,
                  self.calibrationSeriesLMP, self.calibrationSeriesFO>>,
     bom |-> self.bom]

(* C29: the Document a read leaves depends on the bytes of the file only:  *)
(* whatever was read on the object before, the version, every section      *)
(* field and the marker flag after read(f) of a file f that exists are     *)
(* those that read(f) leaves on a new object.                              *)
C29_ReadDependsOnFileOnly ==
    (lastOp.name = "read" /\ fs[lastOp.path] # NoFile) =>
        DocumentOf(asdFile) = DocumentOf(read(NewASDFile, fs[lastOp.path]).self)

(* a write of the Document that a read on a new object has left *)
WriteOfReadDocument ==
    /\ lastOp.name = "write"
    /\ written.after.name = "read"
    /\ written.after.onFresh
    /\ fs[written.after.path] # NoFile
    /\ asdFile.asdFileVersion >= 1

(* C30: a write that follows a read runs to completion without raising,    *)
(* for every Document the read can leave, partial ones included (a version *)
(* 8 file that ends before its audit log, a calibration section that       *)
(* stopped part-way), and its output is the tag followed by the bytes of   *)
(* exactly the sections that are populated.                                *)
C30_WriteOfPartialDocument ==
    WriteOfReadDocument =>
        /\ ~lastOp.raised
        /\ Len(trace) >= 1
        /\ trace[1].sec = "version"
        /\ trace[1].at = 0
        /\ \A i \in 1..Len(RecordedSections) :
              Populated(asdFile, RecordedSections[i])
                  <=> (\E k \in 1..Len(trace) : trace[k].sec = RecordedSections[i])

=============================================================================
